---- MODULE Spec2Model ----
(***************************************************************************)
(* Conversational state machine of the expense tracker:                    *)
(* services/message_handler.py (MessageHandler) with the currency          *)
(* conversion of services/exchange_rate_service.py and the expense store   *)
(* of services/database_service.py.                                        *)
(*                                                                         *)
(* Texts are sequences of one-character strings, so that lower(), strip(), *)
(* title(), replace() and float() are computed and not assumed.  Amounts   *)
(* of money are integers in thousandths of a currency unit, which holds    *)
(* every decimal with at most three fractional digits exactly.             *)
(***************************************************************************)
EXTENDS Integers, Sequences, FiniteSets, TLC

\* ------------------------------------------------------------------------
\* Bounds of the model
\* ------------------------------------------------------------------------
\* number of events handled in one behaviour
MaxEvents == 5

\* the workers that handle events at the same time
Workers == {"w1", "w2"}

\* ------------------------------------------------------------------------
\* Python values
\* ------------------------------------------------------------------------
\* None, and a present value, of an optional field
None == <<>>
Some(v) == <<v>>
IsNone(x) == x = <<>>
Val(x) == x[1]

\* a dict: a function whose DOMAIN is the set of its keys
EmptyDict == [k \in {} |-> None]
DictSet(d, k, v) == [x \in (DOMAIN d) \cup {k} |-> IF x = k THEN v ELSE d[x]]
DictDel(d, k) == [x \in (DOMAIN d) \ {k} |-> d[x]]

\* ------------------------------------------------------------------------
\* str methods, on sequences of characters
\* ------------------------------------------------------------------------
UpperChars == <<"A","B","C","D","E","F","G","H","I","J","K","L","M",
                "N","O","P","Q","R","S","T","U","V","W","X","Y","Z">>
LowerChars == <<"a","b","c","d","e","f","g","h","i","j","k","l","m",
                "n","o","p","q","r","s","t","u","v","w","x","y","z">>
Digits == <<"0","1","2","3","4","5","6","7","8","9">>

IndexIn(c, chars) == CHOOSE i \in 1..Len(chars) : chars[i] = c
IsIn(c, chars) == \E i \in 1..Len(chars) : chars[i] = c
IsCased(c) == IsIn(c, UpperChars) \/ IsIn(c, LowerChars)
IsDigit(c) == IsIn(c, Digits)
IsSpace(c) == c = " "

LowerChar(c) == IF IsIn(c, UpperChars) THEN LowerChars[IndexIn(c, UpperChars)] ELSE c
UpperChar(c) == IF IsIn(c, LowerChars) THEN UpperChars[IndexIn(c, LowerChars)] ELSE c

\* str.lower()
StrLower(t) == [i \in 1..Len(t) |-> LowerChar(t[i])]
\* str.upper()
StrUpper(t) == [i \in 1..Len(t) |-> UpperChar(t[i])]

\* str.strip(): leading and trailing whitespace removed
RECURSIVE LStrip(_)
LStrip(t) == IF t # <<>> /\ IsSpace(Head(t)) THEN LStrip(Tail(t)) ELSE t
RECURSIVE RStrip(_)
RStrip(t) == IF t # <<>> /\ IsSpace(t[Len(t)]) THEN RStrip(SubSeq(t, 1, Len(t) - 1)) ELSE t
StrStrip(t) == RStrip(LStrip(t))

\* str.title(): a cased character is upper-cased when it follows an uncased
\* one (or starts the text) and lower-cased when it follows a cased one
StrTitle(t) ==
    [i \in 1..Len(t) |->
        IF ~IsCased(t[i]) THEN t[i]
        ELSE IF i > 1 /\ IsCased(t[i - 1]) THEN LowerChar(t[i])
        ELSE UpperChar(t[i])]

\* str.replace(pat, ''): every non-overlapping occurrence removed, left to right
StartsWith(t, pat) == Len(t) >= Len(pat) /\ SubSeq(t, 1, Len(pat)) = pat
RECURSIVE StrRemove(_, _)
StrRemove(t, pat) ==
    IF t = <<>> THEN <<>>
    ELSE IF StartsWith(t, pat) THEN StrRemove(SubSeq(t, Len(pat) + 1, Len(t)), pat)
    ELSE <<Head(t)>> \o StrRemove(Tail(t), pat)

\* ------------------------------------------------------------------------
\* float(text), for decimal literals  [sign] digits [ . digits ]  with at
\* most three fractional digits; the value is in thousandths.  Any other
\* text raises ValueError (ok = FALSE).
\* ------------------------------------------------------------------------
DigitVal(c) == IndexIn(c, Digits) - 1
RECURSIVE DigitsVal(_)
DigitsVal(t) == IF t = <<>> THEN 0 ELSE 10 * DigitsVal(SubSeq(t, 1, Len(t) - 1)) + DigitVal(t[Len(t)])
AllDigits(t) == \A i \in 1..Len(t) : IsDigit(t[i])
DotAt(t) == IF \E i \in 1..Len(t) : t[i] = "." THEN CHOOSE i \in 1..Len(t) : t[i] = "." /\ \A j \in 1..(i - 1) : t[j] # "." ELSE 0
FracThousandths(f) ==
    CASE Len(f) = 0 -> 0
      [] Len(f) = 1 -> 100 * DigitsVal(f)
      [] Len(f) = 2 -> 10 * DigitsVal(f)
      [] OTHER -> DigitsVal(f)
Unsigned(t) ==
    LET dot == DotAt(t)
        ip == IF dot = 0 THEN t ELSE SubSeq(t, 1, dot - 1)
        fp == IF dot = 0 THEN <<>> ELSE SubSeq(t, dot + 1, Len(t))
    IN  IF AllDigits(ip) /\ AllDigits(fp) /\ Len(ip) + Len(fp) > 0 /\ Len(fp) <= 3
        THEN [ok |-> TRUE, value |-> 1000 * DigitsVal(ip) + FracThousandths(fp)]
        ELSE [ok |-> FALSE, value |-> 0]
ParseFloat(text) ==
    LET t == StrStrip(text)
    IN  IF t # <<>> /\ Head(t) = "-"
        THEN LET u == Unsigned(Tail(t)) IN [ok |-> u.ok, value |-> 0 - u.value]
        ELSE IF t # <<>> /\ Head(t) = "+" THEN Unsigned(Tail(t))
        ELSE Unsigned(t)

\* ------------------------------------------------------------------------
\* Dates: 'YYYY-MM-DD' texts, datetime.strptime and strftime
\* ------------------------------------------------------------------------
\* datetime.now(), fixed for the model
Today == [year |-> 2025, month |-> 7, day |-> 15]

IsLeap(y) == (y % 4 = 0 /\ y % 100 # 0) \/ y % 400 = 0
DaysInMonth(y, m) ==
    IF m = 2 THEN (IF IsLeap(y) THEN 29 ELSE 28)
    ELSE IF m \in {4, 6, 9, 11} THEN 30 ELSE 31

\* the positions of '-' in a text
Dashes(t) == {i \in 1..Len(t) : t[i] = "-"}
\* datetime.strptime(text, '%Y-%m-%d'): a four-digit year, then month and
\* day of one or two digits; ValueError (ok = FALSE) otherwise
Strptime(t) ==
    LET bad == [ok |-> FALSE, year |-> 0, month |-> 0, day |-> 0]
    IN  IF Cardinality(Dashes(t)) # 2 THEN bad
        ELSE LET d1 == CHOOSE i \in Dashes(t) : \A j \in Dashes(t) : i <= j
                 d2 == CHOOSE i \in Dashes(t) : \A j \in Dashes(t) : j <= i
                 ys == SubSeq(t, 1, d1 - 1)
                 ms == SubSeq(t, d1 + 1, d2 - 1)
                 ds == SubSeq(t, d2 + 1, Len(t))
             IN  IF /\ Len(ys) = 4 /\ AllDigits(ys)
                    /\ Len(ms) \in {1, 2} /\ AllDigits(ms)
                    /\ Len(ds) \in {1, 2} /\ AllDigits(ds)
                    /\ DigitsVal(ms) \in 1..12
                    /\ DigitsVal(ys) >= 1
                    /\ DigitsVal(ds) \in 1..DaysInMonth(DigitsVal(ys), DigitsVal(ms))
                 THEN [ok |-> TRUE, year |-> DigitsVal(ys), month |-> DigitsVal(ms), day |-> DigitsVal(ds)]
                 ELSE bad

\* a number as zero-padded decimal digits of the given width
RECURSIVE Pad(_, _)
Pad(n, width) == IF width = 0 THEN <<>> ELSE Pad(n \div 10, width - 1) \o <<Digits[(n % 10) + 1]>>
\* date.strftime('%Y-%m-%d')
StrftimeYmd(d) == Pad(d.year, 4) \o <<"-">> \o Pad(d.month, 2) \o <<"-">> \o Pad(d.day, 2)
\* the month of the current date, whatever the date formatted
StrftimeYm_of_today(d) == Pad(Today.year, 4) \o <<"-">> \o Pad(Today.month, 2)
\* date.strftime('%Y-%m')
StrftimeYm(d) == Pad(d.year, 4) \o <<"-">> \o Pad(d.month, 2)

\* ------------------------------------------------------------------------
\* Configuration and ExchangeRateService
\* ------------------------------------------------------------------------
\* MWK per TL
POS_RATE == 51
ATM_RATE == 54

\* round(x, 2) of a value in thousandths: the nearest hundredth, a tie going
\* to the even hundredth; the result is again in thousandths
Round2(v) ==
    LET q == v \div 10
        r == v % 10
    IN  IF r < 5 THEN 10 * q
        ELSE IF r > 5 THEN 10 * (q + 1)
        ELSE IF q % 2 = 0 THEN 10 * q ELSE 10 * (q + 1)

\* ExchangeRateService.calculate_conversion, for rate_type in {POS, ATM}
\* (the handler passes no other); tl_amount is a number
calculate_conversion(tl_amount, rate_type) ==
    LET rate == IF rate_type = "POS" THEN POS_RATE ELSE ATM_RATE
    IN  [tl_amount |-> Round2(tl_amount),
         mwk_amount |-> Round2(tl_amount * rate),
         rate_used |-> rate,
         rate_type |-> rate_type]

\* ------------------------------------------------------------------------
\* Inputs
\* ------------------------------------------------------------------------
Senders == {"s1"}

\* text bodies a sender types
TxtManual == <<"m","a","n","u","a","l">>
TxtAtm == <<"A","T","M">>
TxtAmount == <<"4","5",".","5","0">>
TxtAmount3 == <<"1",".","0","0","4">>
TxtMigros == <<"M","i","g","r","o","s">>
TxtBim == <<"B","I","M">>
Texts == {TxtManual, TxtAtm, TxtAmount, TxtMigros}
\* the texts of the manual-entry flows: also an amount with three decimals
\* and a merchant name typed in capitals
ManualTexts == Texts \cup {TxtAmount3, TxtBim}
\* the texts that probe the stages of a manual entry: one digit, one letter,
\* a name of 51 letters, a number above the range, and an amount that says
\* its currency
StageProbes == {<<"5">>, <<"x">>, [i \in 1..51 |-> "a"], <<"2","0","0","0","0">>,
                <<"7"," ","t","l">>}
StageTexts == {TxtManual, TxtAmount} \cup StageProbes
TxtTotal == <<"t","o","t","a","l">>
\* the commands that only ask for a reply
TxtHi == <<"H","i">>
TxtHelp == <<"h","e","l","p">>
TxtDetails == <<"d","e","t","a","i","l","s">>
ReadOnlyTexts == {TxtHi, TxtHelp, TxtTotal, TxtDetails}
AllTexts == ManualTexts \cup StageTexts \cup ReadOnlyTexts

\* records the structuring stage returns (llm_result['data'])
DateJuly == <<"2","0","2","5","-","0","7","-","0","3">>
DateJune == <<"2","0","2","5","-","0","6","-","2","8">>
DateJune5 == <<"2","0","2","5","-","0","6","-","0","5">>
ItemBread == [name |-> "ekmek", price |-> Some(12500), quantity |-> Some(2)]
ItemNoQuantity == [name |-> "sut", price |-> Some(30250), quantity |-> None]
ReceiptA ==
    [merchant_name |-> <<"A","1","0","1">>, total_amount |-> Some(120000), date |-> DateJune,
     items |-> <<ItemBread>>, confidence |-> "high"]
ReceiptB ==
    [merchant_name |-> <<"S","o","k">>, total_amount |-> Some(30250), date |-> DateJuly,
     items |-> <<ItemNoQuantity>>, confidence |-> "medium"]

\* an image event with what the collaborators answer for it: the media id of
\* the message, WhatsAppService.download_media, OCRService.extract_text_from_image
\* and LLMService.process_receipt_text
ImageOcrFails ==
    [media_id |-> TRUE, downloaded |-> TRUE, ocr_success |-> FALSE, llm_success |-> FALSE, data |-> None]
ImageLlmFails ==
    [media_id |-> TRUE, downloaded |-> TRUE, ocr_success |-> TRUE, llm_success |-> FALSE, data |-> None]
ImageOf(data) ==
    [media_id |-> TRUE, downloaded |-> TRUE, ocr_success |-> TRUE, llm_success |-> TRUE, data |-> Some(data)]
Images == {ImageOcrFails, ImageLlmFails, ImageOf(ReceiptA), ImageOf(ReceiptB)}

\* button ids of interactive messages
Buttons == {"pos_rate"}
\* the buttons of the month picker, and an id no branch names
ReadOnlyButtons == {"all_time", "month_2025-06", "no_such_button"}
\* message types the dispatcher has no handler for
UnsupportedTypes == {"audio"}

\* ------------------------------------------------------------------------
\* The str, float and strptime calls of the handlers, tabulated over the
\* texts and dates of the model so that each is computed once
\* ------------------------------------------------------------------------
\* message body -> body.lower().strip()
Normalized == [b \in AllTexts |-> StrStrip(StrLower(b))]
NormalizedTexts == {Normalized[b] : b \in AllTexts}
\* text -> text.upper()
Uppered == [t \in NormalizedTexts |-> StrUpper(t)]
\* text -> float(text.replace('tl', '').replace('lira', '').strip()); the
\* lira sign is not among the characters of the model's texts
Cleaned == [t \in NormalizedTexts |-> ParseFloat(StrStrip(StrRemove(StrRemove(t, <<"t","l">>), <<"l","i","r","a">>)))]
\* text -> text.strip().title()
Titled == [t \in NormalizedTexts |-> StrTitle(StrStrip(t))]
\* date text -> datetime.strptime(text, '%Y-%m-%d')
DateTexts == {DateJune, DateJune5, DateJuly, StrftimeYmd(Today)}
Parsed == [t \in DateTexts |-> Strptime(t)]

\* ------------------------------------------------------------------------
\* State
\* ------------------------------------------------------------------------
VARIABLES
    pending_receipts,        \* MessageHandler.pending_receipts: sender -> record
    pending_manual_entries,  \* MessageHandler.pending_manual_entries: sender -> record
    manual_entry_states,     \* MessageHandler.manual_entry_states: sender -> stage
    expenses,                \* rows of the expenses table, in insertion order
    users,                   \* whatsapp ids of the rows of the users table
    outbox,                  \* kinds of the messages sent while handling the last event
    calls,                   \* pipeline stages run while handling the last event
    staged,                  \* history: how many records were staged so far
    log,                     \* history: the events handled so far
    report,                  \* the summary computed last, with its arguments
    batch,                   \* the monthly delivery job: its users, position and stats
    validation,              \* the record validated last, with what left validation
    services,                \* which delivery services the application was created with
    phone_numbers,           \* users.phone_number: whatsapp id -> number, where it is set
    envelope,                \* the envelope the dispatcher took last, and how far its loop is
    workers,                 \* the position of each worker inside handle_rate_selection
    reads                    \* the summary being computed: what its queries have returned so far

vars == <<pending_receipts, pending_manual_entries, manual_entry_states,
          expenses, users, outbox, calls, staged, log, report, batch, validation,
          services, phone_numbers, envelope, workers, reads>>
\* the dispatcher's loop, the workers' positions and the summary in progress
dispatch == <<envelope, workers, reads>>
\* what the message handlers never touch
reporting == <<report, batch, validation, services, phone_numbers, dispatch>>
dialogue == <<pending_receipts, pending_manual_entries, manual_entry_states>>

Init ==
    /\ pending_receipts = EmptyDict
    /\ pending_manual_entries = EmptyDict
    /\ manual_entry_states = EmptyDict
    /\ expenses = <<>>
    /\ users = {}
    /\ outbox = <<>>
    /\ calls = <<>>
    /\ staged = 0
    /\ log = <<>>
    /\ envelope = None
    /\ workers = [w \in Workers |-> [pc |-> "idle"]]
    /\ reads = None
    /\ report = None
    /\ batch = [pc |-> "idle"]
    /\ validation = None
    /\ services = [sms_service |-> TRUE, whatsapp_service |-> TRUE]
    /\ phone_numbers = EmptyDict

\* ------------------------------------------------------------------------
\* DatabaseService
\* ------------------------------------------------------------------------
\* save_expense: the row built from expense_data; items are stored only when
\* the list is not empty
save_expense(user_id, expense_data) ==
    [user_id |-> user_id,
     merchant |-> expense_data.merchant,
     amount_tl |-> expense_data.amount_tl,
     amount_mwk |-> expense_data.amount_mwk,
     rate_type |-> expense_data.rate_type,
     rate_used |-> expense_data.rate_used,
     expense_date |-> expense_data.expense_date,
     month_year |-> expense_data.month_year,
     confidence_level |-> expense_data.confidence,
     items |-> expense_data.items]

\* ------------------------------------------------------------------------
\* MessageHandler: rate selection (commit)
\* ------------------------------------------------------------------------
\* the items summary of the confirmation: item.get('quantity', 1) > 1 and the
\* price format raise TypeError on a null quantity or price of the first five
ItemsSummaryRaises(items) ==
    \E i \in 1..Len(items) : i <= 5 /\ (IsNone(items[i].quantity) \/ IsNone(items[i].price))

\* the items preview of the rate prompt: the price format raises TypeError on
\* a null price of the first three
ItemsPreviewRaises(items) ==
    \E i \in 1..Len(items) : i <= 3 /\ IsNone(items[i].price)

\* a clearing that empties the three dicts for every sender
ClearPendingData_of_everyone(from_number) ==
    /\ pending_receipts' = EmptyDict
    /\ pending_manual_entries' = EmptyDict
    /\ manual_entry_states' = EmptyDict

\* "Clear pending data" of handle_rate_selection
ClearPendingData(from_number) ==
    /\ pending_receipts' = DictDel(pending_receipts, from_number)
    /\ pending_manual_entries' = DictDel(pending_manual_entries, from_number)
    /\ manual_entry_states' = DictDel(manual_entry_states, from_number)

\* a selection that knows of pending receipts only
SelectPending_receipts_only(from_number) ==
    IF from_number \in DOMAIN pending_receipts
    THEN [found |-> TRUE, data |-> pending_receipts[from_number], is_manual_entry |-> FALSE]
    ELSE [found |-> FALSE, data |-> None, is_manual_entry |-> FALSE]

\* the record a rate choice commits: the pending receipt first, else the
\* pending manual entry
SelectPending(from_number) ==
    IF from_number \in DOMAIN pending_receipts
    THEN [found |-> TRUE, data |-> pending_receipts[from_number], is_manual_entry |-> FALSE]
    ELSE IF from_number \in DOMAIN pending_manual_entries
    THEN [found |-> TRUE, data |-> pending_manual_entries[from_number], is_manual_entry |-> TRUE]
    ELSE [found |-> FALSE, data |-> None, is_manual_entry |-> FALSE]

\* expense_data of handle_rate_selection
ExpenseData(extracted_data, is_manual_entry, conversion, expense_date) ==
    [merchant |-> extracted_data.merchant_name,
     amount_tl |-> conversion.tl_amount,
     amount_mwk |-> conversion.mwk_amount,
     rate_type |-> conversion.rate_type,
     rate_used |-> conversion.rate_used,
     expense_date |-> [year |-> expense_date.year, month |-> expense_date.month, day |-> expense_date.day],
     month_year |-> StrftimeYm(expense_date),
     items |-> extracted_data.items,
     confidence |-> IF is_manual_entry THEN "manual" ELSE extracted_data.confidence]

\* the return that also clears what the sender has open
NoPendingTransaction_clearing(from_number) ==
    /\ outbox' = <<"no_pending_transaction">>
    /\ ClearPendingData(from_number)
    /\ UNCHANGED <<expenses, staged>>

\* the "No pending transaction found" return of handle_rate_selection
NoPendingTransaction(from_number) ==
    /\ outbox' = <<"no_pending_transaction">>
    /\ UNCHANGED <<dialogue, expenses, staged>>

handle_rate_selection(from_number, user, rate_type) ==
    LET sel == SelectPending(from_number)
        failed == /\ outbox' = <<"error_saving_transaction">>
                  /\ UNCHANGED <<dialogue, staged>>
    IN  IF ~sel.found
        THEN NoPendingTransaction(from_number)
        ELSE IF IsNone(sel.data.total_amount) \/ ~Parsed[sel.data.date].ok
        THEN \* calculate_conversion or strptime raises: nothing was saved
             failed /\ UNCHANGED expenses
        ELSE LET conversion == calculate_conversion(Val(sel.data.total_amount), rate_type)
                 expense_date == Parsed[sel.data.date]
                 expense_data == ExpenseData(sel.data, sel.is_manual_entry, conversion, expense_date)
             IN  /\ expenses' = Append(expenses, save_expense(user, expense_data))
                 /\ IF ItemsSummaryRaises(sel.data.items)
                    THEN \* raised after the row was committed
                         failed
                    ELSE /\ outbox' = <<"saved_successfully">>
                         /\ ClearPendingData(from_number)
                         /\ UNCHANGED staged

\* ------------------------------------------------------------------------
\* MessageHandler: receipt images
\* ------------------------------------------------------------------------
\* a store that keeps the receipt the sender already has pending
StorePendingReceipt_keeping_first(from_number, extracted_data) ==
    /\ pending_receipts' = IF from_number \in DOMAIN pending_receipts
                           THEN pending_receipts
                           ELSE DictSet(pending_receipts, from_number, extracted_data)
    /\ staged' = staged + 1

\* "Store pending receipt" of process_receipt_image
StorePendingReceipt(from_number, extracted_data) ==
    /\ pending_receipts' = DictSet(pending_receipts, from_number, extracted_data)
    /\ staged' = staged + 1

\* process_receipt_image without the check of the OCR result
process_receipt_image_ocr_unchecked(from_number, user, image) ==
    IF ~image.llm_success
    THEN /\ calls' = <<"download", "ocr", "llm">>
         /\ outbox' = <<"processing", "could_not_process_receipt">>
         /\ UNCHANGED <<dialogue, expenses, staged>>
    ELSE LET extracted_data == Val(image.data)
         IN  /\ calls' = <<"download", "ocr", "llm">>
             /\ StorePendingReceipt(from_number, extracted_data)
             /\ outbox' = <<"processing", "rate_selection", "rate_buttons">>
             /\ UNCHANGED <<pending_manual_entries, manual_entry_states, expenses>>

process_receipt_image(from_number, user, image) ==
    IF ~image.ocr_success
    THEN /\ calls' = <<"download", "ocr">>
         /\ outbox' = <<"processing", "could_not_read_text">>
         /\ UNCHANGED <<dialogue, expenses, staged>>
    ELSE IF ~image.llm_success
    THEN /\ calls' = <<"download", "ocr", "llm">>
         /\ outbox' = <<"processing", "could_not_process_receipt">>
         /\ UNCHANGED <<dialogue, expenses, staged>>
    ELSE LET extracted_data == Val(image.data)
         IN  IF IsNone(extracted_data.total_amount)
             THEN \* create_rate_selection_message raises TypeError
                  /\ calls' = <<"download", "ocr", "llm">>
                  /\ outbox' = <<"processing", "receipt_processing_failed">>
                  /\ UNCHANGED <<dialogue, expenses, staged>>
             ELSE /\ calls' = <<"download", "ocr", "llm">>
                  /\ StorePendingReceipt(from_number, extracted_data)
                  /\ outbox' = IF ItemsPreviewRaises(extracted_data.items)
                               THEN <<"processing", "receipt_processing_failed">>
                               ELSE <<"processing", "rate_selection", "rate_buttons">>
                  /\ UNCHANGED <<pending_manual_entries, manual_entry_states, expenses>>

\* the OCR and LLM services are constructed at start-up (app.py), so the
\* "service not available" branch is not taken
handle_image_message(from_number, user, image) ==
    IF ~image.media_id
    THEN /\ calls' = <<>>
         /\ outbox' = <<"could_not_receive_image">>
         /\ UNCHANGED <<dialogue, expenses, staged>>
    ELSE IF ~image.downloaded
    THEN /\ calls' = <<"download">>
         /\ outbox' = <<"processing", "could_not_download_image">>
         /\ UNCHANGED <<dialogue, expenses, staged>>
    ELSE process_receipt_image(from_number, user, image)

\* ------------------------------------------------------------------------
\* MessageHandler: manual entry
\* ------------------------------------------------------------------------
start_manual_entry(from_number) ==
    /\ manual_entry_states' = DictSet(manual_entry_states, from_number,
            [step |-> "amount", awaiting_amount |-> TRUE, awaiting_merchant |-> FALSE,
             amount |-> None, merchant |-> None])
    /\ outbox' = <<"manual_entry_mode">>
    /\ UNCHANGED <<pending_receipts, pending_manual_entries, expenses, staged>>

is_amount_entry(text) ==
    LET amount == Cleaned[text]
    IN  amount.ok /\ 10 <= amount.value /\ amount.value <= 10000000

handle_manual_amount(from_number, user, text) ==
    IF from_number \notin DOMAIN manual_entry_states
    THEN /\ outbox' = <<"send_manual_first">>
         /\ UNCHANGED <<dialogue, expenses, staged>>
    ELSE LET amount == Cleaned[text]
         IN  IF ~amount.ok
             THEN /\ outbox' = <<"invalid_amount_format">>
                  /\ UNCHANGED <<dialogue, expenses, staged>>
             ELSE /\ manual_entry_states' = DictSet(manual_entry_states, from_number,
                        [manual_entry_states[from_number] EXCEPT
                            !.step = "merchant", !.awaiting_amount = FALSE,
                            !.awaiting_merchant = TRUE, !.amount = Some(amount.value)])
                  /\ outbox' = <<"amount_received">>
                  /\ UNCHANGED <<pending_receipts, pending_manual_entries, expenses, staged>>

\* manual_data of handle_manual_merchant
ManualData(merchant_name, amount) ==
    [merchant_name |-> merchant_name,
     total_amount |-> amount,
     date |-> StrftimeYmd(Today),
     items |-> <<>>,
     confidence |-> "manual",
     receipt_number |-> None,
     tax_amount |-> 0]

handle_manual_merchant(from_number, user, merchant_text) ==
    IF from_number \notin DOMAIN manual_entry_states
    THEN /\ outbox' = <<>>
         /\ UNCHANGED <<dialogue, expenses, staged>>
    ELSE LET state == manual_entry_states[from_number]
             amount == state.amount
             merchant_name == Titled[merchant_text]
         IN  IF Len(merchant_name) < 2 \/ Len(merchant_name) > 50
             THEN /\ outbox' = <<"invalid_merchant_name">>
                  /\ UNCHANGED <<dialogue, expenses, staged>>
             ELSE IF IsNone(amount)
             THEN \* amount * pos_rate raises TypeError after the entry is stored
                  /\ pending_manual_entries' = DictSet(pending_manual_entries, from_number,
                        ManualData(merchant_name, amount))
                  /\ staged' = staged + 1
                  /\ outbox' = <<"error_processing_merchant">>
                  /\ UNCHANGED <<pending_receipts, manual_entry_states, expenses>>
             ELSE /\ pending_manual_entries' = DictSet(pending_manual_entries, from_number,
                        ManualData(merchant_name, amount))
                  /\ staged' = staged + 1
                  /\ manual_entry_states' = DictDel(manual_entry_states, from_number)
                  /\ outbox' = <<"manual_entry_complete", "rate_buttons">>
                  /\ UNCHANGED <<pending_receipts, expenses>>

\* ------------------------------------------------------------------------
\* MessageHandler: dispatch
\* ------------------------------------------------------------------------
GreetingWords == {<<"h","i">>, <<"h","e","l","l","o">>, <<"h","e","y">>, <<"s","t","a","r","t">>}
HelpWords == {<<"h","e","l","p">>, <<"i","n","f","o">>}
TotalWords == {<<"t","o","t","a","l">>, <<"b","a","l","a","n","c","e">>, <<"s","u","m","m","a","r","y">>, <<"t","o","t","a","l","s">>}
ManualWords == {<<"m","a","n","u","a","l">>, <<"e","n","t","r","y">>, <<"a","d","d">>, <<"l","o","s","t"," ","r","e","c","e","i","p","t">>, <<"n","o"," ","r","e","c","e","i","p","t">>}
DetailWords == {<<"d","e","t","a","i","l","s">>, <<"i","t","e","m","s">>, <<"b","r","e","a","k","d","o","w","n">>, <<"l","i","s","t">>}
RateWords == {<<"P","O","S">>, <<"A","T","M">>}

\* a reply that also abandons the manual entries in progress
SendOnly_abandoning(kind) ==
    /\ outbox' = <<kind>>
    /\ manual_entry_states' = EmptyDict
    /\ UNCHANGED <<pending_receipts, pending_manual_entries, expenses, staged>>
\* the read-only replies: welcome, help, month picker, item breakdown, totals
SendOnly(kind) ==
    /\ outbox' = <<kind>>
    /\ UNCHANGED <<dialogue, expenses, staged>>

\* StrUpper of a rate word, as the dispatcher hands it to the commit
RateType(text) == IF Uppered[text] = <<"P","O","S">> THEN "POS" ELSE "ATM"

handle_text_message(body, from_number, user) ==
    LET text == Normalized[body]
    IN  IF text \in GreetingWords THEN SendOnly("welcome")
        ELSE IF text \in HelpWords THEN SendOnly("help")
        ELSE IF text \in TotalWords THEN SendOnly("month_picker")
        ELSE IF text \in ManualWords THEN start_manual_entry(from_number)
        ELSE IF text \in DetailWords THEN SendOnly("items_breakdown")
        ELSE IF Uppered[text] \in RateWords
        THEN handle_rate_selection(from_number, user, RateType(text))
        ELSE IF is_amount_entry(text) THEN handle_manual_amount(from_number, user, text)
        ELSE IF /\ from_number \in DOMAIN manual_entry_states
                /\ manual_entry_states[from_number].awaiting_merchant
        THEN handle_manual_merchant(from_number, user, text)
        ELSE SendOnly("help")

handle_interactive_message(button_id, from_number, user) ==
    IF button_id = "pos_rate" THEN handle_rate_selection(from_number, user, "POS")
    ELSE IF button_id = "atm_rate" THEN handle_rate_selection(from_number, user, "ATM")
    ELSE IF button_id = "all_time" THEN SendOnly("all_time_total")
    ELSE IF button_id \in {"month_2025-06", "month_2025-07"} THEN SendOnly("month_total")
    ELSE SendOnly("help")

\* process_message: the user row is fetched or created (the user id is the
\* sender's whatsapp id), then the message goes to the handler of its type
process_message(message) ==
    /\ users' = users \cup {message.from}
    /\ log' = Append(log, message)
    /\ CASE message.type = "text" ->
                /\ handle_text_message(message.body, message.from, message.from)
                /\ calls' = <<>>
         [] message.type = "image" ->
                handle_image_message(message.from, message.from, message.image)
         [] message.type = "interactive" ->
                /\ handle_interactive_message(message.button_id, message.from, message.from)
                /\ calls' = <<>>
         [] OTHER ->
                /\ SendOnly("help")
                /\ calls' = <<>>

\* ------------------------------------------------------------------------
\* Events: one message of an envelope is handled at a time
\* ------------------------------------------------------------------------
Receive(message) ==
    /\ Len(log) < MaxEvents
    /\ process_message(message)
    /\ UNCHANGED reporting

TextMessage ==
    \E s \in Senders, body \in Texts :
        Receive([type |-> "text", from |-> s, body |-> body])

ImageMessage ==
    \E s \in Senders, image \in Images :
        Receive([type |-> "image", from |-> s, image |-> image])

InteractiveMessage ==
    \E s \in Senders, button_id \in Buttons :
        Receive([type |-> "interactive", from |-> s, button_id |-> button_id])

Next == TextMessage \/ ImageMessage \/ InteractiveMessage

Spec == Init /\ [][Next]_vars

\* the manual-entry flows alone: every text of ManualTexts, and the rate buttons
ManualTextMessage ==
    \E s \in Senders, body \in ManualTexts :
        Receive([type |-> "text", from |-> s, body |-> body])

NextManual == ManualTextMessage \/ InteractiveMessage

SpecManual == Init /\ [][NextManual]_vars

\* the stages of a manual entry, probed with every text of StageTexts
StageTextMessage ==
    \E s \in Senders, body \in StageTexts :
        Receive([type |-> "text", from |-> s, body |-> body])

NextStages == StageTextMessage

SpecStages == Init /\ [][NextStages]_vars

\* a manual entry and a receipt, interrupted by the commands, buttons and
\* message types that only ask for a reply
MaxResumeEvents == 4
ResumeTexts == ReadOnlyTexts \cup {TxtManual, TxtAmount, TxtMigros}
ResumeTextMessage ==
    \E s \in Senders, body \in ResumeTexts :
        /\ Len(log) < MaxResumeEvents
        /\ Receive([type |-> "text", from |-> s, body |-> body])
ResumeImageMessage ==
    \E s \in Senders :
        /\ Len(log) < MaxResumeEvents
        /\ Receive([type |-> "image", from |-> s, image |-> ImageOf(ReceiptA)])
ResumeInteractiveMessage ==
    \E s \in Senders, button_id \in Buttons \cup ReadOnlyButtons :
        /\ Len(log) < MaxResumeEvents
        /\ Receive([type |-> "interactive", from |-> s, button_id |-> button_id])
UnsupportedMessage ==
    \E s \in Senders, type \in UnsupportedTypes :
        /\ Len(log) < MaxResumeEvents
        /\ Receive([type |-> type, from |-> s])

NextResume ==
    \/ ResumeTextMessage
    \/ ResumeImageMessage
    \/ ResumeInteractiveMessage
    \/ UnsupportedMessage

SpecResume == Init /\ [][NextResume]_vars

\* ------------------------------------------------------------------------
\* MessageHandler.handle_incoming_message: the envelope of the webhook
\* ------------------------------------------------------------------------
\* a key of a JSON object: absent, null, or a list
Absent == None
Null == Some([null |-> TRUE, list |-> <<>>])
List(l) == Some([null |-> FALSE, list |-> l])
\* the key 'value' of a change: absent, null, or an object with the key
\* 'messages'
NullValue == Some([null |-> TRUE, messages |-> Absent])
Value(messages) == Some([null |-> FALSE, messages |-> messages])

\* dict.get(key, []) followed by `if not ...: return`: an absent key gives
\* the empty default, null gives None, and both are false like the empty list
Falsy(key) == IsNone(key) \/ Val(key).null \/ Val(key).list = <<>>

\* lines 33-47 up to the loop: the messages the loop is going to take, or
\* the exception raised on the way (None.get for a null value, the
\* iteration of None for null messages)
messages_of(webhook_data) ==
    LET entry == webhook_data.entry
        nothing == [raised |-> FALSE, messages |-> <<>>]
        raises == [raised |-> TRUE, messages |-> <<>>]
    IN  IF Falsy(entry) THEN nothing
        ELSE LET changes == Val(entry).list[1].changes
             IN  IF Falsy(changes) THEN nothing
                 ELSE LET value == Val(changes).list[1].value
                      IN  IF IsNone(value) THEN nothing
                          ELSE IF Val(value).null THEN raises
                          ELSE LET messages == Val(value).messages
                               IN  IF IsNone(messages) THEN nothing
                                   ELSE IF Val(messages).null THEN raises
                                   ELSE [raised |-> FALSE, messages |-> Val(messages).list]

\* a dispatcher whose body is not inside try/except
dispatcher_outcome_without_try(raised) == IF raised THEN "raised" ELSE "returned"

\* the try/except Exception around the body of handle_incoming_message
dispatcher_outcome(raised) == "returned"

\* a process_message whose body is not inside try/except
process_message_propagates_without_try(raised) == raised

\* the try/except Exception around the body of process_message
process_message_propagates(raised) == FALSE

\* the dispatcher takes an envelope: early returns, or the loop starts
handle_incoming_message(webhook_data) ==
    LET extracted == messages_of(webhook_data)
    IN  /\ envelope' = Some([webhook_data |-> webhook_data,
                             start |-> Len(log),
                             messages |-> extracted.messages,
                             failures |-> <<>>,
                             sent |-> 0,
                             outcome |-> IF extracted.raised \/ extracted.messages = <<>>
                                         THEN dispatcher_outcome(extracted.raised)
                                         ELSE "running"])
        /\ UNCHANGED <<dialogue, expenses, users, outbox, calls, staged, log,
                       report, batch, validation, services, phone_numbers, workers, reads>>

\* one turn of the loop: process_message on the next message.  mark_as_read
\* is tried first and its failure is swallowed; when get_or_create_user
\* raises, the message gets no handler and no reply
process_next_message(mark_as_read, get_or_create_user) ==
    LET message == Head(Val(envelope).messages)
        propagated == process_message_propagates(~get_or_create_user)
        rest == IF propagated THEN <<>> ELSE Tail(Val(envelope).messages)
    IN  /\ IF get_or_create_user
           THEN process_message(message)
           ELSE /\ log' = Append(log, message)
                /\ outbox' = <<>>
                /\ calls' = <<>>
                /\ UNCHANGED <<dialogue, expenses, users, staged>>
        /\ envelope' = Some([Val(envelope) EXCEPT
                                !.messages = rest,
                                !.failures = Append(@, ~get_or_create_user),
                                !.sent = @ + Len(outbox'),
                                !.outcome = IF rest = <<>> THEN dispatcher_outcome(propagated)
                                            ELSE "running"])
        /\ UNCHANGED <<report, batch, validation, services, phone_numbers, workers, reads>>

\* the envelopes: every way of having no message list, and lists of up to
\* MaxMessages messages
MaxMessages == 2
EnvelopeMessages ==
    {[type |-> "image", from |-> "s1", image |-> ImageOf(ReceiptA)],
     [type |-> "image", from |-> "s1", image |-> ImageOcrFails],
     [type |-> "interactive", from |-> "s1", button_id |-> "pos_rate"]}
MessageLists ==
    UNION {[1..n -> EnvelopeMessages] : n \in 0..MaxMessages}
EnvelopeOf(value) == [entry |-> List(<<[changes |-> List(<<[value |-> value]>>)]>>)]
Envelopes ==
    {[entry |-> Absent], [entry |-> Null], [entry |-> List(<<>>)],
     [entry |-> List(<<[changes |-> Absent]>>)],
     [entry |-> List(<<[changes |-> Null]>>)],
     [entry |-> List(<<[changes |-> List(<<>>)]>>)],
     EnvelopeOf(Absent), EnvelopeOf(NullValue),
     EnvelopeOf(Value(Absent)), EnvelopeOf(Value(Null))}
        \cup {EnvelopeOf(Value(List(messages))) : messages \in MessageLists}

Idle == IF IsNone(envelope) THEN TRUE ELSE Val(envelope).outcome # "running"

HandleIncomingMessage ==
    \E webhook_data \in Envelopes :
        /\ Idle
        /\ Len(log) + Len(messages_of(webhook_data).messages) <= MaxEvents
        /\ handle_incoming_message(webhook_data)

ProcessNextMessage ==
    \E mark_as_read \in BOOLEAN, get_or_create_user \in BOOLEAN :
        /\ ~Idle
        /\ process_next_message(mark_as_read, get_or_create_user)

NextEnvelope == HandleIncomingMessage \/ ProcessNextMessage

SpecEnvelope == Init /\ [][NextEnvelope]_vars

\* ------------------------------------------------------------------------
\* Two workers inside handle_rate_selection.  MessageHandler holds plain
\* dicts and no lock, and the server handles requests in threads: between
\* the read of the pending record, the commit of the row and the deletion
\* of the pending record, the other worker may run
\* ------------------------------------------------------------------------
\* lines 486-498: the worker reads the record the sender has pending, or
\* answers that there is none and returns
select_pending(w, from_number, rate_type, message) ==
    LET sel == SelectPending(from_number)
    IN  /\ users' = users \cup {from_number}
        /\ log' = Append(log, message)
        /\ calls' = <<>>
        /\ IF sel.found
           THEN /\ workers' = [workers EXCEPT ![w] =
                                    [pc |-> "selected", from_number |-> from_number,
                                     rate_type |-> rate_type, extracted_data |-> sel.data,
                                     is_manual_entry |-> sel.is_manual_entry]]
                /\ outbox' = <<>>
           ELSE /\ outbox' = <<"no_pending_transaction">>
                /\ UNCHANGED workers
        /\ UNCHANGED <<dialogue, expenses, staged>>

\* lines 500-523: the conversion and the commit of the row
save_selected(w) ==
    LET mine == workers[w]
        conversion == calculate_conversion(Val(mine.extracted_data.total_amount), mine.rate_type)
        expense_date == Parsed[mine.extracted_data.date]
        expense_data == ExpenseData(mine.extracted_data, mine.is_manual_entry, conversion, expense_date)
    IN  /\ expenses' = Append(expenses, save_expense(mine.from_number, expense_data))
        /\ workers' = [workers EXCEPT ![w].pc = "saved"]
        /\ UNCHANGED <<dialogue, users, outbox, calls, staged, log>>

\* lines 525-574: the confirmation is sent and what the sender has pending
\* is deleted, each dict under its own membership test
clear_selected(w) ==
    /\ outbox' = <<"saved_successfully">>
    /\ ClearPendingData(workers[w].from_number)
    /\ workers' = [workers EXCEPT ![w] = [pc |-> "idle"]]
    /\ UNCHANGED <<expenses, users, calls, staged, log>>

RateButtons == {"pos_rate", "atm_rate"}

WorkerSelects ==
    \E w \in Workers, s \in Senders, button_id \in RateButtons :
        /\ workers[w].pc = "idle"
        /\ Len(log) < MaxEvents
        /\ select_pending(w, s, IF button_id = "pos_rate" THEN "POS" ELSE "ATM",
                          [type |-> "interactive", from |-> s, button_id |-> button_id])
        /\ UNCHANGED <<report, batch, validation, services, phone_numbers, envelope, reads>>

WorkerSaves ==
    \E w \in Workers :
        /\ workers[w].pc = "selected"
        /\ save_selected(w)
        /\ UNCHANGED <<report, batch, validation, services, phone_numbers, envelope, reads>>

WorkerClears ==
    \E w \in Workers :
        /\ workers[w].pc = "saved"
        /\ clear_selected(w)
        /\ UNCHANGED <<report, batch, validation, services, phone_numbers, envelope, reads>>

\* a receipt image staged for the sender, handled by a worker of its own
WorkerImage ==
    \E s \in Senders :
        Receive([type |-> "image", from |-> s, image |-> ImageOf(ReceiptA)])

NextWorkers == WorkerImage \/ WorkerSelects \/ WorkerSaves \/ WorkerClears

SpecWorkers == Init /\ [][NextWorkers]_vars

\* two senders: their images and manual entries are handled one event at
\* a time, their rate choices by the two workers step by step
TwoSenders == {"s1", "s2"}
MaxSenderEvents == 4

SenderEvent ==
    \E s \in TwoSenders :
        \E message \in {[type |-> "image", from |-> s, image |-> ImageOf(ReceiptA)]}
                        \cup {[type |-> "text", from |-> s, body |-> body] :
                                body \in {TxtManual, TxtAmount, TxtMigros}} :
            /\ Len(log) < MaxSenderEvents
            /\ Receive(message)

SenderRateChoice ==
    \E w \in Workers, s \in TwoSenders :
        /\ workers[w].pc = "idle"
        /\ Len(log) < MaxSenderEvents
        /\ select_pending(w, s, "POS", [type |-> "interactive", from |-> s, button_id |-> "pos_rate"])
        /\ UNCHANGED <<report, batch, validation, services, phone_numbers, envelope, reads>>

NextSenders == SenderEvent \/ SenderRateChoice \/ WorkerSaves \/ WorkerClears

SpecSenders == Init /\ [][NextSenders]_vars

\* ------------------------------------------------------------------------
\* Vocabulary of the properties
\* ------------------------------------------------------------------------
\* the event handled last
LastEvent == log[Len(log)]
\* a step that handles one event of sender s
Handles(s) == Len(log') = Len(log) + 1 /\ log'[Len(log')].from = s
\* the event handled by the step
Handled == log'[Len(log')]

IsRateChoice(m) ==
    \/ m.type = "interactive" /\ m.button_id \in {"pos_rate", "atm_rate"}
    \/ m.type = "text" /\ Uppered[Normalized[m.body]] \in RateWords
\* the rate category a rate choice names
ChosenRate(m) ==
    IF m.type = "interactive"
    THEN (IF m.button_id = "pos_rate" THEN "POS" ELSE "ATM")
    ELSE (IF Normalized[m.body] = <<"p","o","s">> THEN "POS" ELSE "ATM")
IsImage(m) == m.type = "image"
ExtractionSucceeds(m) == m.type = "image" /\ m.image.media_id /\ m.image.downloaded
                         /\ m.image.ocr_success /\ m.image.llm_success
IsManualCommand(m) == m.type = "text" /\ Normalized[m.body] \in ManualWords

HasPendingReceipt(s) == s \in DOMAIN pending_receipts
HasPendingManualEntry(s) == s \in DOMAIN pending_manual_entries
HasManualEntryState(s) == s \in DOMAIN manual_entry_states
HasStagedRecord(s) == HasPendingReceipt(s) \/ HasPendingManualEntry(s)

\* ------------------------------------------------------------------------
\* C1: exactly-once commit.  A rate choice made while the sender has a
\* staged record appends exactly one Expense and removes the sender's
\* staged record; of two rate choices in a row the second appends nothing;
\* and there are never more Expenses than records that were staged.
\* ------------------------------------------------------------------------
C1_ExactlyOnceCommit ==
    [][/\ \A s \in Senders :
            (Handles(s) /\ IsRateChoice(Handled) /\ HasStagedRecord(s))
                => /\ Len(expenses') = Len(expenses) + 1
                   /\ s \notin DOMAIN pending_receipts'
                   /\ s \notin DOMAIN pending_manual_entries'
       /\ \A s \in Senders :
            (/\ Handles(s) /\ IsRateChoice(Handled)
             /\ log # <<>> /\ LastEvent.from = s /\ IsRateChoice(LastEvent))
                => expenses' = expenses
       /\ Len(expenses') <= staged']_vars

\* ------------------------------------------------------------------------
\* C2: a rate choice of a sender with neither a pending receipt nor a
\* pending manual entry changes nothing - not the expenses, not the pending
\* receipts, not the pending manual entries, not the manual-entry states -
\* and sends only the "no pending transaction" message.
\* ------------------------------------------------------------------------
C2_RateChoiceWithoutStagedRecord ==
    [][\A s \in Senders :
            (Handles(s) /\ IsRateChoice(Handled) /\ ~HasStagedRecord(s))
                => /\ UNCHANGED <<expenses, pending_receipts, pending_manual_entries,
                                  manual_entry_states>>
                   /\ outbox' = <<"no_pending_transaction">>]_vars

\* a rate choice was answered "no pending transaction" while the sender's
\* manual entry is open
C2_Witness ==
    /\ log # <<>>
    /\ IsRateChoice(LastEvent)
    /\ outbox = <<"no_pending_transaction">>
    /\ HasManualEntryState(LastEvent.from)
    /\ manual_entry_states[LastEvent.from].awaiting_merchant

\* ------------------------------------------------------------------------
\* C3: a sender never has a manual-entry state and a pending receipt at
\* the same time.
\* ------------------------------------------------------------------------
C3_OneActivePartialTransaction ==
    \A s \in Senders : ~(HasManualEntryState(s) /\ HasPendingReceipt(s))

\* ------------------------------------------------------------------------
\* C4: handling an image event discards what the sender had pending:
\* afterwards the sender has no manual-entry state and no pending manual
\* entry, and a pending receipt only if this image staged it.
\* ------------------------------------------------------------------------
C4_ImageDiscardsPriorState ==
    [][\A s \in Senders :
            (Handles(s) /\ IsImage(Handled))
                => /\ s \notin DOMAIN manual_entry_states'
                   /\ s \notin DOMAIN pending_manual_entries'
                   /\ s \in DOMAIN pending_receipts'
                        => /\ ExtractionSucceeds(Handled)
                           /\ pending_receipts'[s] = Val(Handled.image.data)]_vars

\* ------------------------------------------------------------------------
\* C5: handling a 'manual' command leaves the sender in awaiting_amount
\* with no amount and no merchant stored, with no pending receipt and no
\* pending manual entry; a rate choice right after it commits nothing.
\* ------------------------------------------------------------------------
C5_ManualDiscardsPriorState ==
    [][/\ \A s \in Senders :
            (Handles(s) /\ IsManualCommand(Handled))
                => /\ s \in DOMAIN manual_entry_states'
                   /\ manual_entry_states'[s].awaiting_amount
                   /\ ~manual_entry_states'[s].awaiting_merchant
                   /\ IsNone(manual_entry_states'[s].amount)
                   /\ IsNone(manual_entry_states'[s].merchant)
                   /\ s \notin DOMAIN pending_receipts'
                   /\ s \notin DOMAIN pending_manual_entries'
       /\ \A s \in Senders :
            (/\ Handles(s) /\ IsRateChoice(Handled)
             /\ log # <<>> /\ LastEvent.from = s /\ IsManualCommand(LastEvent))
                => expenses' = expenses]_vars

\* ------------------------------------------------------------------------
\* C6: when the OCR stage or the LLM stage fails for an image, nothing is
\* staged and no Expense is appended, the failure of that stage is reported
\* to the sender, and the LLM stage is not run after an OCR failure.
\* ------------------------------------------------------------------------
OcrFails(m) == m.type = "image" /\ m.image.media_id /\ m.image.downloaded /\ ~m.image.ocr_success
LlmFails(m) == m.type = "image" /\ m.image.media_id /\ m.image.downloaded
               /\ m.image.ocr_success /\ ~m.image.llm_success
Ran(stage) == \E i \in 1..Len(calls) : calls[i] = stage

C6_PipelineFailureStagesNothing ==
    [][\A s \in Senders :
            (Handles(s) /\ (OcrFails(Handled) \/ LlmFails(Handled)))
                => /\ UNCHANGED <<pending_receipts, pending_manual_entries, staged, expenses>>
                   /\ outbox' # <<>>
                   /\ outbox'[Len(outbox')] =
                        IF OcrFails(Handled) THEN "could_not_read_text"
                        ELSE "could_not_process_receipt"
                   /\ OcrFails(Handled) => ~(Ran("llm"))'
                   /\ LlmFails(Handled) => (Ran("ocr") /\ Ran("llm"))']_vars

\* an image whose OCR failed was handled while a receipt was pending, and
\* before it an image whose structuring failed
C6_Witness ==
    /\ Len(log) >= 3
    /\ LlmFails(log[Len(log) - 1])
    /\ OcrFails(LastEvent)
    /\ HasPendingReceipt(LastEvent.from)
    /\ staged = 1
    /\ expenses = <<>>
    /\ calls = <<"download", "ocr">>

\* ------------------------------------------------------------------------
\* C7: pending receipts are last-write-wins.  After a successfully
\* extracted image the sender's one pending receipt is that image's record;
\* a rate choice that follows two successfully extracted images commits
\* exactly one Expense, which carries the record of the second image.
\* ------------------------------------------------------------------------
CarriesRecord(row, s, data, rate_type) ==
    /\ row.user_id = s
    /\ row.merchant = data.merchant_name
    /\ row.amount_tl = Round2(Val(data.total_amount))
    /\ row.items = data.items
    /\ row.confidence_level = data.confidence
    /\ row.month_year = SubSeq(data.date, 1, 7)
    /\ row.rate_type = rate_type

AmountOf(body) == ParseFloat(StrStrip(StrLower(body))).value
\* a text stating a decimal in [0.01, 10000.00]
IsValidAmountText(body) ==
    LET amount == ParseFloat(StrStrip(StrLower(body)))
    IN  amount.ok /\ amount.value >= 10 /\ amount.value <= 10000000
\* a text of 2 to 50 characters after trimming
IsValidName(body) == Len(StrStrip(body)) >= 2 /\ Len(StrStrip(body)) <= 50
\* a text the dispatcher takes as a command or as a rate keyword
IsCommandWord(body) ==
    LET text == StrStrip(StrLower(body))
    IN  \/ text \in GreetingWords \cup HelpWords \cup TotalWords \cup ManualWords \cup DetailWords
        \/ text \in {<<"p","o","s">>, <<"a","t","m">>}
\* the merchant names among the texts: valid names that are letters only
\* and no command
MerchantNames == {TxtMigros, TxtBim}

TextOf(s, body) == [type |-> "text", from |-> s, body |-> body]
\* the log is exactly: 'manual', the amount text a, the merchant text m
ManualFlow(s, a, m) == log = <<TextOf(s, TxtManual), TextOf(s, a), TextOf(s, m)>>
\* the log is exactly: 'manual', a, m, and then a rate choice
ManualFlowCommitted(s, a, m) ==
    /\ Len(log) = 4
    /\ SubSeq(log, 1, 3) = <<TextOf(s, TxtManual), TextOf(s, a), TextOf(s, m)>>
    /\ log[4].from = s
    /\ IsRateChoice(log[4])

StaleManualSession(l, s) ==
    /\ Len(l) = 4
    /\ \A i \in 1..4 : l[i].from = s
    /\ IsManualCommand(l[1])
    /\ l[2].type = "text" /\ IsValidAmountText(l[2].body)
    /\ ExtractionSucceeds(l[3])
    /\ IsRateChoice(l[4])

C9_StaleManualSessionSuperseded ==
    [][\A s \in Senders :
         /\ StaleManualSession(log', s)
                => /\ Len(expenses') = 1
                   /\ CarriesRecord(expenses'[1], s, Val(log'[3].image.data), ChosenRate(log'[4]))
         /\ (/\ StaleManualSession(log, s)
             /\ Handles(s)
             /\ Handled.type = "text" /\ Handled.body \in MerchantNames)
                => /\ outbox' = <<"help">>
                   /\ UNCHANGED <<dialogue, expenses, staged>>]_vars

\* ------------------------------------------------------------------------
\* C10: every Expense row satisfies amount_target = round(amount_source *
\* rate_applied, 2) on its stored values, with rate_applied the configured
\* rate of its category.
\* ------------------------------------------------------------------------
C10_PerRowArithmetic ==
    \A i \in 1..Len(expenses) :
        /\ expenses[i].rate_used = (IF expenses[i].rate_type = "POS" THEN POS_RATE ELSE ATM_RATE)
        /\ expenses[i].amount_mwk = Round2(expenses[i].amount_tl * expenses[i].rate_used)
\* ------------------------------------------------------------------------
\* C11: every committed Expense has year_month equal to its transaction
\* date formatted as YYYY-MM: four digits of the year, a dash, two digits
\* of the month.
\* ------------------------------------------------------------------------
C11_YearMonthOfDate ==
    \A i \in 1..Len(expenses) :
        LET row == expenses[i]
        IN  /\ Len(row.month_year) = 7
            /\ row.month_year[5] = "-"
            /\ AllDigits(SubSeq(row.month_year, 1, 4))
            /\ AllDigits(SubSeq(row.month_year, 6, 7))
            /\ DigitsVal(SubSeq(row.month_year, 1, 4)) = row.expense_date.year
            /\ DigitsVal(SubSeq(row.month_year, 6, 7)) = row.expense_date.month

\* a receipt dated in June was committed in July: its row is in the bucket
\* 2025-06 and not in the bucket of the current month
C11_Witness ==
    /\ Len(expenses) = 1
    /\ expenses[1].expense_date = [year |-> 2025, month |-> 6, day |-> 28]
    /\ expenses[1].month_year = <<"2","0","2","5","-","0","6">>
    /\ expenses[1].month_year # StrftimeYm(Today)
\* ------------------------------------------------------------------------
\* MonthlyTrackingService and DatabaseService.get_monthly_total
\* ------------------------------------------------------------------------
\* number of rows of the expenses table in the behaviours of the summaries
MaxRows == 4

\* Expense.query.filter(user_id, month_year).all(): the rows in table order
MonthExpenses(user_id, month_year) ==
    SelectSeq(expenses, LAMBDA e : e.user_id = user_id /\ e.month_year = month_year)

\* the one element of a singleton: TheOnly({e(x) : x \in {v}}) is e(v) with
\* v computed once
TheOnly(S) == CHOOSE x \in S : TRUE

RECURSIVE SumMwk(_)
SumMwk(rows) == IF rows = <<>> THEN 0 ELSE rows[1].amount_mwk + SumMwk(Tail(rows))
RECURSIVE SumTl(_)
SumTl(rows) == IF rows = <<>> THEN 0 ELSE rows[1].amount_tl + SumTl(Tail(rows))

\* the totals over the rows of the user alone, of every month
get_monthly_total_of_all_months(user_id, month_year) ==
    TheOnly({[mwk_total |-> Round2(SumMwk(rows)),
              tl_total |-> Round2(SumTl(rows)),
              transaction_count |-> Len(rows)] :
             rows \in {SelectSeq(expenses, LAMBDA e : e.user_id = user_id)}})

get_monthly_total(user_id, month_year) ==
    TheOnly({[mwk_total |-> Round2(SumMwk(rows)),
              tl_total |-> Round2(SumTl(rows)),
              transaction_count |-> Len(rows)] :
             rows \in {MonthExpenses(user_id, month_year)}})

\* a dict in insertion order: a sequence of <<key, value>> items.
\* d[k] = d.get(k, 0) + v: a key already there keeps its place, a new key
\* goes last
Accumulate(items, k, v) ==
    IF \E i \in 1..Len(items) : items[i][1] = k
    THEN [i \in 1..Len(items) |-> IF items[i][1] = k THEN <<k, items[i][2] + v>> ELSE items[i]]
    ELSE Append(items, <<k, v>>)

\* expense.merchant or 'Unknown'
MerchantOf(expense) ==
    IF expense.merchant = <<>> THEN <<"U","n","k","n","o","w","n">> ELSE expense.merchant

\* merchant_totals and daily_spending after the loop over the rows
RECURSIVE merchant_totals(_)
merchant_totals(rows) ==
    IF rows = <<>> THEN <<>>
    ELSE LET e == rows[Len(rows)]
         IN  Accumulate(merchant_totals(SubSeq(rows, 1, Len(rows) - 1)), MerchantOf(e), e.amount_mwk)
RECURSIVE daily_spending(_)
daily_spending(rows) ==
    IF rows = <<>> THEN <<>>
    ELSE LET e == rows[Len(rows)]
         IN  Accumulate(daily_spending(SubSeq(rows, 1, Len(rows) - 1)), e.expense_date.day, e.amount_mwk)
rate_breakdown(rows) ==
    [POS |-> SumMwk(SelectSeq(rows, LAMBDA e : e.rate_type = "POS")),
     ATM |-> SumMwk(SelectSeq(rows, LAMBDA e : e.rate_type = "ATM"))]

\* sorted(items, key=value, reverse=True): descending by value, items of
\* equal value in their original order
\* an insertion that puts an item before the items of equal value
InsertDesc_before_equals(sorted, x) ==
    LET n == Cardinality({i \in 1..Len(sorted) : sorted[i][2] > x[2]})
    IN  SubSeq(sorted, 1, n) \o <<x>> \o SubSeq(sorted, n + 1, Len(sorted))
InsertDesc(sorted, x) ==
    LET n == Cardinality({i \in 1..Len(sorted) : sorted[i][2] >= x[2]})
    IN  SubSeq(sorted, 1, n) \o <<x>> \o SubSeq(sorted, n + 1, Len(sorted))
RECURSIVE SortedDesc(_)
SortedDesc(items) ==
    IF items = <<>> THEN <<>>
    ELSE InsertDesc(SortedDesc(SubSeq(items, 1, Len(items) - 1)), items[Len(items)])
\* items[:n]
Take(items, n) == SubSeq(items, 1, IF Len(items) < n THEN Len(items) ELSE n)

\* max(items, key=value): the first item of maximal value
MaxByValue(items) ==
    items[CHOOSE i \in 1..Len(items) :
            /\ \A j \in 1..Len(items) : items[j][2] <= items[i][2]
            /\ \A j \in 1..(i - 1) : items[j][2] < items[i][2]]

\* round(n / d, 2) for n in thousandths and a count d > 0
RoundDiv2(n, d) ==
    LET q == n \div (10 * d)
        r == n % (10 * d)
    IN  IF 2 * r < 10 * d THEN 10 * q
        ELSE IF 2 * r > 10 * d THEN 10 * (q + 1)
        ELSE IF q % 2 = 0 THEN 10 * q ELSE 10 * (q + 1)

\* enhanced_summary, for the basic totals and the rows of the month
EnhancedSummary(basic_summary, rows, month_year) ==
    TheOnly({[mwk_total |-> basic_summary.mwk_total,
              tl_total |-> basic_summary.tl_total,
              transaction_count |-> basic_summary.transaction_count,
              top_merchants |-> top_merchants,
              top_merchant |-> top_merchants[1][1],
              rate_breakdown |-> rate_breakdown(rows),
              average_transaction |-> IF basic_summary.transaction_count > 0
                                     THEN RoundDiv2(basic_summary.mwk_total, basic_summary.transaction_count)
                                     ELSE 0,
              highest_spending_day |-> highest_day[1],
              highest_spending_amount |-> Round2(highest_day[2]),
              month_year |-> month_year] :
             top_merchants \in {Take(SortedDesc(merchant_totals(rows)), 3)},
             highest_day \in {MaxByValue(daily_spending(rows))}})

get_enhanced_monthly_summary(user_id, month_year) ==
    TheOnly({IF rows = <<>> THEN basic_summary
             ELSE EnhancedSummary(basic_summary, rows, month_year) :
             basic_summary \in {get_monthly_total(user_id, month_year)},
             rows \in {MonthExpenses(user_id, month_year)}})
\* f"{year}-{month:02d}"
MonthYearOf(year, month) == Pad(year, 4) \o <<"-">> \o Pad(month, 2)

\* the items of `more` accumulated into `items`, left to right
RECURSIVE AccumulateAll(_, _)
AccumulateAll(items, more) ==
    IF more = <<>> THEN items
    ELSE AccumulateAll(Accumulate(items, more[1][1], more[1][2]), Tail(more))

\* one pass of the loop of get_yearly_summary: the month's summary added
\* to yearly_data
YearlyStep(yearly_data, month, monthly_summary) ==
    LET enhanced == "top_merchants" \in DOMAIN monthly_summary
    IN  [year |-> yearly_data.year,
         total_mwk |-> yearly_data.total_mwk + monthly_summary.mwk_total,
         total_tl |-> yearly_data.total_tl + monthly_summary.tl_total,
         total_transactions |-> yearly_data.total_transactions + monthly_summary.transaction_count,
         monthly_breakdown |-> Append(yearly_data.monthly_breakdown,
               [month |-> month, mwk_total |-> monthly_summary.mwk_total,
                transaction_count |-> monthly_summary.transaction_count]),
         top_merchants |-> IF enhanced
                           THEN AccumulateAll(yearly_data.top_merchants, monthly_summary.top_merchants)
                           ELSE yearly_data.top_merchants,
         rate_breakdown |-> IF enhanced
                            THEN [POS |-> yearly_data.rate_breakdown.POS + monthly_summary.rate_breakdown.POS,
                                  ATM |-> yearly_data.rate_breakdown.ATM + monthly_summary.rate_breakdown.ATM]
                            ELSE yearly_data.rate_breakdown]

\* yearly_data after the loop has run for the months 1..month
RECURSIVE YearlyData(_, _, _)
YearlyData(user_id, year, month) ==
    IF month = 0
    THEN [year |-> year, total_mwk |-> 0, total_tl |-> 0, total_transactions |-> 0,
          monthly_breakdown |-> <<>>, top_merchants |-> <<>>,
          rate_breakdown |-> [POS |-> 0, ATM |-> 0]]
    ELSE TheOnly({YearlyStep(yearly_data, month, monthly_summary) :
                  yearly_data \in {YearlyData(user_id, year, month - 1)},
                  monthly_summary \in {get_enhanced_monthly_summary(user_id, MonthYearOf(year, month))}})

get_yearly_summary(user_id, year) ==
    TheOnly({[yearly_data EXCEPT !.top_merchants = Take(SortedDesc(yearly_data.top_merchants), 5)] :
             yearly_data \in {YearlyData(user_id, year, 12)}})

\* ------------------------------------------------------------------------
\* The endpoints that commit an expense and that compute summaries
\* ------------------------------------------------------------------------
\* what the message handlers hold, and their history
messaging == <<pending_receipts, pending_manual_entries, manual_entry_states,
               outbox, calls, staged, log>>

\* steps 2 to 4 of select_rate: the row saved for a posted record
expense_row(user_whatsapp_id, extracted_data, rate_type) ==
    LET tl_amount == Val(extracted_data.total_amount)
        rate_used == IF rate_type = "POS" THEN POS_RATE ELSE ATM_RATE
        expense_date == Parsed[extracted_data.date]
        expense_data ==
            [merchant |-> extracted_data.merchant_name,
             amount_tl |-> Round2(tl_amount),
             amount_mwk |-> Round2(tl_amount * rate_used),
             rate_type |-> rate_type,
             rate_used |-> rate_used,
             expense_date |-> [year |-> expense_date.year, month |-> expense_date.month,
                               day |-> expense_date.day],
             month_year |-> StrftimeYm(expense_date),
             items |-> extracted_data.items,
             confidence |-> extracted_data.confidence]
    IN  save_expense(user_whatsapp_id, expense_data)

\* POST /select-rate: the expense of the posted record is saved and the
\* totals of its month are returned; any error is answered and saves nothing
select_rate(user_whatsapp_id, extracted_data, rate_type) ==
    /\ users' = users \cup {user_whatsapp_id}
    /\ IF IsNone(extracted_data.total_amount) \/ ~Parsed[extracted_data.date].ok
       THEN /\ report' = Some([kind |-> "error"])
            /\ UNCHANGED expenses
       ELSE LET month_year == StrftimeYm(Parsed[extracted_data.date])
            IN  /\ expenses' = Append(expenses, expense_row(user_whatsapp_id, extracted_data, rate_type))
                /\ report' = Some([kind |-> "select_rate", user_id |-> user_whatsapp_id,
                                   period |-> month_year, at |-> Len(expenses'),
                                   value |-> get_monthly_total(user_whatsapp_id, month_year)'])
    /\ UNCHANGED <<messaging, batch, validation, services, phone_numbers, dispatch>>

\* GET /monthly-summary/<user_id>/<month_year>
get_monthly_summary(user_id, month_year) ==
    /\ users' = users \cup {user_id}
    /\ report' = Some([kind |-> "monthly_summary", user_id |-> user_id,
                       period |-> month_year, at |-> Len(expenses),
                       value |-> get_enhanced_monthly_summary(user_id, month_year)])
    /\ UNCHANGED <<expenses, messaging, batch, validation, services, phone_numbers, dispatch>>

\* a call of MonthlyTrackingService.get_yearly_summary
yearly_summary(user_id, year) ==
    /\ report' = Some([kind |-> "yearly_summary", user_id |-> user_id,
                       period |-> year, at |-> Len(expenses),
                       value |-> get_yearly_summary(user_id, year)])
    /\ UNCHANGED <<expenses, users, messaging, batch, validation, services, phone_numbers, dispatch>>

\* the posted records: merchant, total and date
ReceiptOf(merchant_name, total_amount, date) ==
    [merchant_name |-> merchant_name, total_amount |-> Some(total_amount), date |-> date,
     items |-> <<>>, confidence |-> "high"]
NameA101 == <<"A","1","0","1">>
NameSok == <<"S","o","k">>
NameBim == <<"B","i","m">>
NameMigros == <<"M","i","g","r","o","s">>
Posted ==
    {[user_id |-> "s1", extracted_data |-> ReceiptOf(NameA101, 10000, DateJune), rate_type |-> "POS"],
     [user_id |-> "s1", extracted_data |-> ReceiptOf(NameSok, 10000, DateJune5), rate_type |-> "POS"],
     [user_id |-> "s1", extracted_data |-> ReceiptOf(NameBim, 20000, DateJune5), rate_type |-> "POS"],
     [user_id |-> "s1", extracted_data |-> ReceiptOf(NameMigros, 5000, DateJune), rate_type |-> "ATM"],
     [user_id |-> "s1", extracted_data |-> ReceiptOf(NameA101, 10000, DateJuly), rate_type |-> "POS"],
     [user_id |-> "s2", extracted_data |-> ReceiptOf(NameA101, 10000, DateJune), rate_type |-> "POS"]}
SummaryUsers == {"s1", "s2"}
MonthJune == <<"2","0","2","5","-","0","6">>
MonthAugust == <<"2","0","2","5","-","0","8">>
SummaryMonths == {MonthJune, MonthAugust}
SummaryYears == {2025}

SelectRate ==
    \E data \in Posted :
        /\ Len(expenses) < MaxRows
        /\ select_rate(data.user_id, data.extracted_data, data.rate_type)
MonthlySummary ==
    \E user_id \in SummaryUsers, month_year \in SummaryMonths :
        get_monthly_summary(user_id, month_year)
YearlySummary ==
    \E user_id \in SummaryUsers, year \in SummaryYears :
        yearly_summary(user_id, year)

NextSummary == SelectRate \/ MonthlySummary \/ YearlySummary

SpecSummary == Init /\ [][NextSummary]_vars

\* ------------------------------------------------------------------------
\* get_enhanced_monthly_summary query by query.  get_monthly_total runs
\* three statements (the sum of amount_mwk, the sum of amount_tl, the
\* count) and the summary a fourth one (the rows); no statement is held in
\* a snapshot with the others, so a commit of another thread may fall
\* between any two of them
\* ------------------------------------------------------------------------
\* db.session.query(func.sum(Expense.amount_mwk))...scalar() or 0
read_mwk_total(user_id, month_year) ==
    /\ IsNone(reads)
    /\ reads' = Some([pc |-> "mwk", user_id |-> user_id, month_year |-> month_year,
                      since |-> Len(expenses),
                      mwk_total |-> SumMwk(MonthExpenses(user_id, month_year)),
                      tl_total |-> 0, transaction_count |-> 0])
    /\ UNCHANGED <<expenses, users, messaging, report, batch, validation, services,
                   phone_numbers, envelope, workers>>

\* db.session.query(func.sum(Expense.amount_tl))...scalar() or 0
read_tl_total ==
    /\ ~IsNone(reads)
    /\ Val(reads).pc = "mwk"
    /\ reads' = Some([Val(reads) EXCEPT
                        !.pc = "tl",
                        !.tl_total = SumTl(MonthExpenses(Val(reads).user_id, Val(reads).month_year))])
    /\ UNCHANGED <<expenses, users, messaging, report, batch, validation, services,
                   phone_numbers, envelope, workers>>

\* Expense.query.filter(...).count()
read_count ==
    /\ ~IsNone(reads)
    /\ Val(reads).pc = "tl"
    /\ reads' = Some([Val(reads) EXCEPT
                        !.pc = "count",
                        !.transaction_count = Len(MonthExpenses(Val(reads).user_id, Val(reads).month_year))])
    /\ UNCHANGED <<expenses, users, messaging, report, batch, validation, services,
                   phone_numbers, envelope, workers>>

\* Expense.query.filter(...).all() and the rest of the summary, computed
\* from the totals read before and the rows read now
read_rows ==
    /\ ~IsNone(reads)
    /\ Val(reads).pc = "count"
    /\ LET basic_summary == [mwk_total |-> Round2(Val(reads).mwk_total),
                             tl_total |-> Round2(Val(reads).tl_total),
                             transaction_count |-> Val(reads).transaction_count]
           rows == MonthExpenses(Val(reads).user_id, Val(reads).month_year)
       IN  report' = Some([kind |-> "monthly_summary", user_id |-> Val(reads).user_id,
                           period |-> Val(reads).month_year, at |-> Len(expenses),
                           since |-> Val(reads).since,
                           value |-> IF rows = <<>> THEN basic_summary
                                     ELSE EnhancedSummary(basic_summary, rows, Val(reads).month_year)])
    /\ reads' = None
    /\ UNCHANGED <<expenses, users, messaging, batch, validation, services,
                   phone_numbers, envelope, workers>>

ReadMwkTotal ==
    \E month_year \in SummaryMonths :
        read_mwk_total("s1", month_year)
ReadTlTotal == read_tl_total
ReadCount == read_count
ReadRows == read_rows

\* rows are committed while the summary is computed
NextReads ==
    \/ SelectRate
    \/ ReadMwkTotal
    \/ ReadTlTotal
    \/ ReadCount
    \/ ReadRows

SpecReads == Init /\ [][NextReads]_vars

\* ------------------------------------------------------------------------
\* Delivery of the monthly summary over SMS and WhatsApp
\* (services/monthly_tracking_service.py)
\* ------------------------------------------------------------------------
\* what a call of a delivery service does: it returns or it raises.
\* SMSService.send_monthly_summary returns a dict with 'success' and, on
\* failure, 'error'; WhatsAppService.send_message returns the response or
\* None
SmsCalls ==
    {[kind |-> "returns", success |-> TRUE, error |-> None],
     [kind |-> "returns", success |-> FALSE, error |-> Some("publish failed")],
     [kind |-> "raises", message |-> "sms down"]}
WhatsAppCalls ==
    {[kind |-> "returns", result |-> Some("wamid")],
     [kind |-> "returns", result |-> None],
     [kind |-> "raises", message |-> "whatsapp down"]}

\* the row of the users table of a whatsapp id
UserOf(whatsapp_id) ==
    [whatsapp_id |-> whatsapp_id,
     phone_number |-> IF whatsapp_id \in DOMAIN phone_numbers
                      THEN Some(phone_numbers[whatsapp_id]) ELSE None]

\* `if user.phone_number and self.sms_service.is_available()`
sms_attempted(user) ==
    /\ ~IsNone(user.phone_number)
    /\ Val(user.phone_number) # ""
    /\ services.sms_service

\* `if user.whatsapp_id and self.whatsapp_service`
whatsapp_attempted(user) ==
    /\ user.whatsapp_id # ""
    /\ services.whatsapp_service

\* both formatters read summary['month_year'] and the analytics fields
Formattable(summary) == "month_year" \in DOMAIN summary

whatsapp_delivery_without_error(user, summary, whatsapp_call) ==
    [success |-> /\ whatsapp_attempted(user)
                 /\ Formattable(summary)
                 /\ whatsapp_call.kind = "returns"
                 /\ ~IsNone(whatsapp_call.result),
     error |-> None]

\* the SMS half of send_dual_delivery
sms_delivery(user, summary, sms_call) ==
    IF ~sms_attempted(user) THEN [success |-> FALSE, error |-> None]
    ELSE IF ~Formattable(summary) THEN [success |-> FALSE, error |-> Some("'month_year'")]
    ELSE IF sms_call.kind = "raises" THEN [success |-> FALSE, error |-> Some(sms_call.message)]
    ELSE IF sms_call.success THEN [success |-> TRUE, error |-> None]
    ELSE [success |-> FALSE,
          error |-> IF IsNone(sms_call.error) THEN Some("Unknown SMS error") ELSE sms_call.error]

\* the WhatsApp half of send_dual_delivery
whatsapp_delivery(user, summary, whatsapp_call) ==
    IF ~whatsapp_attempted(user) THEN [success |-> FALSE, error |-> None]
    ELSE IF ~Formattable(summary) THEN [success |-> FALSE, error |-> Some("'month_year'")]
    ELSE IF whatsapp_call.kind = "raises" THEN [success |-> FALSE, error |-> Some(whatsapp_call.message)]
    ELSE IF ~IsNone(whatsapp_call.result) THEN [success |-> TRUE, error |-> None]
    ELSE [success |-> FALSE, error |-> Some("WhatsApp send failed")]

send_dual_delivery(user, summary, sms_call, whatsapp_call) ==
    LET sms == sms_delivery(user, summary, sms_call)
        whatsapp == whatsapp_delivery(user, summary, whatsapp_call)
    IN  [sms_success |-> sms.success, sms_error |-> sms.error,
         whatsapp_success |-> whatsapp.success, whatsapp_error |-> whatsapp.error]

\* what neither the delivery test nor the batch touches
ledger == <<expenses, messaging, validation, services, dispatch>>

\* str.isdigit of a whatsapp id: the ids that stand for phone numbers
DigitIds == {"s1", "s2"}
isdigit(whatsapp_id) == whatsapp_id \in DigitIds

\* GET /test-dual-delivery/<whatsapp_id>: the user's phone number is set
\* from the whatsapp id where it is missing, and the summary of the current
\* month is sent over both channels
test_dual_delivery(whatsapp_id, sms_call, whatsapp_call) ==
    /\ users' = users \cup {whatsapp_id}
    /\ phone_numbers' = IF whatsapp_id \notin DOMAIN phone_numbers /\ isdigit(whatsapp_id)
                        THEN DictSet(phone_numbers, whatsapp_id, "+" \o whatsapp_id)
                        ELSE phone_numbers
    /\ LET current_month == StrftimeYm(Today)
           summary == get_enhanced_monthly_summary(whatsapp_id, current_month)
           user == UserOf(whatsapp_id)'
       IN  IF summary.transaction_count = 0
           THEN report' = Some([kind |-> "no_data", user_id |-> whatsapp_id])
           ELSE report' = Some([kind |-> "dual_delivery", user_id |-> whatsapp_id,
                                at |-> Len(expenses),
                                sms_attempted |-> sms_attempted(user),
                                whatsapp_attempted |-> whatsapp_attempted(user),
                                sms_call |-> sms_call, whatsapp_call |-> whatsapp_call,
                                value |-> send_dual_delivery(user, summary, sms_call, whatsapp_call)])
    /\ UNCHANGED <<ledger, batch>>

\* create_app: the application is started again with the credentials of its
\* environment; the handler's dictionaries start empty and no job is running
create_app(sms_service, whatsapp_service) ==
    /\ services' = [sms_service |-> sms_service, whatsapp_service |-> whatsapp_service]
    /\ pending_receipts' = EmptyDict
    /\ pending_manual_entries' = EmptyDict
    /\ manual_entry_states' = EmptyDict
    /\ batch' = [pc |-> "idle"]
    /\ UNCHANGED <<expenses, users, outbox, calls, staged, log, report, validation, phone_numbers, dispatch>>

\* DELETE /admin/delete-expense/<expense_id>
admin_delete_expense(expense_id) ==
    /\ expense_id \in 1..Len(expenses)
    /\ expenses' = [k \in 1..(Len(expenses) - 1) |->
                        IF k < expense_id THEN expenses[k] ELSE expenses[k + 1]]
    /\ UNCHANGED <<users, messaging, reporting>>

\* the month before today's, as send_monthly_summaries computes it
prev_month_year ==
    IF Today.month = 1 THEN MonthYearOf(Today.year - 1, 12)
    ELSE MonthYearOf(Today.year, Today.month - 1)

\* the orders in which a query without ORDER BY may return the rows
Orderings(S) ==
    {order \in [1..Cardinality(S) -> S] : \A k, l \in 1..Cardinality(S) : order[k] = order[l] => k = l}

\* User.query.join(Expense).filter(Expense.month_year == ...).distinct()
users_with_expenses(month_year) ==
    {UserOf(whatsapp_id) : whatsapp_id \in
        {u \in users : \E k \in 1..Len(expenses) :
                            expenses[k].user_id = u /\ expenses[k].month_year = month_year}}

\* send_monthly_summaries up to its loop: the due users are read and the
\* counters start at zero
start_monthly_summaries(order) ==
    /\ batch.pc # "running"
    /\ order \in Orderings(users_with_expenses(prev_month_year))
    /\ batch' = [pc |-> "running",
                 month_processed |-> prev_month_year,
                 users_with_expenses |-> order,
                 next |-> 1,
                 outcomes |-> <<>>,
                 delivery_stats |-> [total_users |-> Len(order),
                                     sms_sent |-> 0, sms_failed |-> 0,
                                     whatsapp_sent |-> 0, whatsapp_failed |-> 0,
                                     dual_success |-> 0, dual_partial |-> 0,
                                     total_failure |-> 0]]
    /\ UNCHANGED <<users, ledger, report, phone_numbers>>

Count(stats, key) == [stats EXCEPT ![key] = @ + 1]

\* the counters after the delivery to one user
CountDelivery(stats, delivery_result) ==
    LET channels ==
            Count(Count(stats, IF delivery_result.sms_success THEN "sms_sent" ELSE "sms_failed"),
                  IF delivery_result.whatsapp_success THEN "whatsapp_sent" ELSE "whatsapp_failed")
    IN  IF delivery_result.sms_success /\ delivery_result.whatsapp_success
        THEN Count(channels, "dual_success")
        ELSE IF delivery_result.sms_success \/ delivery_result.whatsapp_success
        THEN Count(channels, "dual_partial")
        ELSE Count(channels, "total_failure")

\* the loop without its try: an exception leaves the job
process_user_without_try(raises, sms_call, whatsapp_call) ==
    /\ batch.pc = "running"
    /\ batch.next <= Len(batch.users_with_expenses)
    /\ batch' = IF raises THEN [batch EXCEPT !.pc = "raised"]
                ELSE [batch EXCEPT !.next = @ + 1,
                                   !.outcomes = Append(@, [user |-> batch.users_with_expenses[batch.next].whatsapp_id,
                                                           status |-> "skipped"])]
    /\ UNCHANGED <<users, ledger, report, phone_numbers>>

\* one pass of the loop of send_monthly_summaries; `raises` says whether
\* computing the summary raised
process_user(raises, sms_call, whatsapp_call) ==
    /\ batch.pc = "running"
    /\ batch.next <= Len(batch.users_with_expenses)
    /\ LET user == batch.users_with_expenses[batch.next]
           summary == get_enhanced_monthly_summary(user.whatsapp_id, batch.month_processed)
           delivery_result == send_dual_delivery(user, summary, sms_call, whatsapp_call)
       IN  batch' =
             IF raises
             THEN [batch EXCEPT !.next = @ + 1,
                                !.delivery_stats = Count(@, "total_failure"),
                                !.outcomes = Append(@, [user |-> user.whatsapp_id, status |-> "raised"])]
             ELSE IF summary.transaction_count > 0
             THEN [batch EXCEPT !.next = @ + 1,
                                !.delivery_stats = CountDelivery(@, delivery_result),
                                !.outcomes = Append(@, [user |-> user.whatsapp_id, status |-> "delivered",
                                                        sms_success |-> delivery_result.sms_success,
                                                        whatsapp_success |-> delivery_result.whatsapp_success])]
             ELSE [batch EXCEPT !.next = @ + 1,
                                !.outcomes = Append(@, [user |-> user.whatsapp_id, status |-> "skipped"])]
    /\ UNCHANGED <<users, ledger, report, phone_numbers>>

\* a job that removes the rows of the month it has delivered
return_monthly_summaries_purging ==
    /\ batch.pc = "running"
    /\ batch.next > Len(batch.users_with_expenses)
    /\ batch' = [batch EXCEPT !.pc = "returned"]
    /\ expenses' = SelectSeq(expenses, LAMBDA row : row.month_year # batch.month_processed)
    /\ UNCHANGED <<users, messaging, validation, services, dispatch, report, phone_numbers>>

\* the end of send_monthly_summaries: the month and the counters are returned
return_monthly_summaries ==
    /\ batch.pc = "running"
    /\ batch.next > Len(batch.users_with_expenses)
    /\ batch' = [batch EXCEPT !.pc = "returned"]
    /\ UNCHANGED <<users, ledger, report, phone_numbers>>

MaxDue == 3
DeliveryPosted ==
    {[user_id |-> "s1", extracted_data |-> ReceiptOf(NameA101, 10000, DateJune), rate_type |-> "POS"],
     [user_id |-> "s2", extracted_data |-> ReceiptOf(NameA101, 10000, DateJune), rate_type |-> "POS"],
     [user_id |-> "", extracted_data |-> ReceiptOf(NameA101, 10000, DateJune), rate_type |-> "POS"],
     [user_id |-> "s1", extracted_data |-> ReceiptOf(NameA101, 10000, DateJuly), rate_type |-> "POS"]}

PostDelivery ==
    \E data \in DeliveryPosted :
        /\ Len(expenses) < MaxDue
        /\ select_rate(data.user_id, data.extracted_data, data.rate_type)
TestDualDelivery ==
    \E whatsapp_id \in DigitIds, sms_call \in SmsCalls, whatsapp_call \in WhatsAppCalls :
        test_dual_delivery(whatsapp_id, sms_call, whatsapp_call)
CreateApp ==
    \E sms_service \in BOOLEAN, whatsapp_service \in BOOLEAN :
        create_app(sms_service, whatsapp_service)
AdminDeleteExpense ==
    \E expense_id \in 1..Len(expenses) : admin_delete_expense(expense_id)
StartMonthlySummaries ==
    \E order \in Orderings(users_with_expenses(prev_month_year)) : start_monthly_summaries(order)
ProcessUser ==
    \E raises \in BOOLEAN, sms_call \in SmsCalls, whatsapp_call \in WhatsAppCalls :
        process_user(raises, sms_call, whatsapp_call)
ReturnMonthlySummaries == return_monthly_summaries

NextDelivery == PostDelivery \/ TestDualDelivery \/ CreateApp

SpecDelivery == Init /\ [][NextDelivery]_vars

\* the monthly job and the deletions of rows it reads. It starts on a table
\* that POST /select-rate and GET /test-dual-delivery have filled: any of the
\* posted records, in the order below, and a phone number for any of the
\* users that have one of these rows and a numeric id
DueRows ==
    <<[user_id |-> "s1", extracted_data |-> ReceiptOf(NameA101, 10000, DateJune), rate_type |-> "POS"],
      [user_id |-> "s2", extracted_data |-> ReceiptOf(NameA101, 10000, DateJune), rate_type |-> "POS"],
      [user_id |-> "", extracted_data |-> ReceiptOf(NameA101, 10000, DateJune), rate_type |-> "POS"],
      [user_id |-> "s1", extracted_data |-> ReceiptOf(NameA101, 10000, DateJuly), rate_type |-> "POS"]>>

\* the rows of DueRows at the positions of `chosen`, in their order
RECURSIVE RowsChosen(_, _)
RowsChosen(chosen, k) ==
    IF k > Len(DueRows) THEN <<>>
    ELSE (IF k \in chosen
          THEN <<expense_row(DueRows[k].user_id, DueRows[k].extracted_data, DueRows[k].rate_type)>>
          ELSE <<>>) \o RowsChosen(chosen, k + 1)

InitBatch ==
    /\ pending_receipts = EmptyDict
    /\ pending_manual_entries = EmptyDict
    /\ manual_entry_states = EmptyDict
    /\ outbox = <<>>
    /\ calls = <<>>
    /\ staged = 0
    /\ log = <<>>
    /\ envelope = None
    /\ workers = [w \in Workers |-> [pc |-> "idle"]]
    /\ reads = None
    /\ report = None
    /\ batch = [pc |-> "idle"]
    /\ validation = None
    /\ services \in [sms_service : BOOLEAN, whatsapp_service : BOOLEAN]
    /\ \E chosen \in SUBSET (1..Len(DueRows)) :
            /\ expenses = RowsChosen(chosen, 1)
            /\ users = {DueRows[k].user_id : k \in chosen}
    /\ \E with_phone \in SUBSET (users \cap DigitIds) :
            phone_numbers = [whatsapp_id \in with_phone |-> "+" \o whatsapp_id]

NextBatch ==
    \/ AdminDeleteExpense
    \/ StartMonthlySummaries
    \/ ProcessUser
    \/ ReturnMonthlySummaries

SpecBatch == InitBatch /\ [][NextBatch]_vars

\* the job's thread keeps running: every call it makes returns or raises
InitBatchFair == InitBatch /\ services = [sms_service |-> TRUE, whatsapp_service |-> TRUE]
SpecBatchFair ==
    /\ InitBatchFair
    /\ [][NextBatch]_vars
    /\ WF_vars(ProcessUser)
    /\ WF_vars(ReturnMonthlySummaries)

\* the events of the dispatcher and the runs of the monthly job over one
\* table: a receipt image, a rate choice, the three texts of a manual entry
\* and a request for the total
MaxLedgerEvents == 4
LedgerMessages ==
    {[type |-> "image", from |-> "s1", image |-> ImageOf(ReceiptA)],
     [type |-> "interactive", from |-> "s1", button_id |-> "pos_rate"]}
        \cup {[type |-> "text", from |-> "s1", body |-> body] :
                body \in {TxtManual, TxtAmount, TxtMigros, TxtTotal}}

LedgerEvent ==
    \E message \in LedgerMessages :
        /\ Len(log) < MaxLedgerEvents
        /\ Receive(message)

NextLedger ==
    \/ LedgerEvent
    \/ StartMonthlySummaries
    \/ ProcessUser
    \/ ReturnMonthlySummaries

SpecLedger == Init /\ [][NextLedger]_vars

\* ------------------------------------------------------------------------
\* LLMService.validate_extracted_data and fix_turkish_date
\* (services/llm_service.py)
\* ------------------------------------------------------------------------
\* date.toordinal(): the days from 0001-01-01, counted from 1
RECURSIVE DaysBeforeMonth(_, _)
DaysBeforeMonth(y, m) == IF m = 1 THEN 0 ELSE DaysBeforeMonth(y, m - 1) + DaysInMonth(y, m - 1)
toordinal(d) ==
    365 * (d.year - 1) + ((d.year - 1) \div 4) - ((d.year - 1) \div 100) + ((d.year - 1) \div 400)
        + DaysBeforeMonth(d.year, d.month) + d.day

Abs(n) == IF n < 0 THEN 0 - n ELSE n

\* (parsed_date - today).days, where parsed_date is a midnight and today is
\* datetime.now(): timedelta.days is the floor, so any time after midnight
\* takes one day off the difference of the dates
DaysBetween(parsed_date, today, after_midnight) ==
    toordinal(parsed_date) - toordinal(today) - (IF after_midnight THEN 1 ELSE 0)

\* re.search of (\d{1,2})SEP(\d{1,2})SEP(\d{2,4}) in a text: the match that
\* starts at position i, with the lengths of its three groups; each group is
\* greedy
DigitsAt(t, i, n) == i + n - 1 <= Len(t) /\ \A k \in i..(i + n - 1) : IsDigit(t[k])
CharAt(t, i, c) == i <= Len(t) /\ t[i] = c
MatchesAt(t, i, sep) ==
    {g \in {1, 2} \X {1, 2} \X {2, 3, 4} :
        /\ DigitsAt(t, i, g[1])
        /\ CharAt(t, i + g[1], sep)
        /\ DigitsAt(t, i + g[1] + 1, g[2])
        /\ CharAt(t, i + g[1] + 1 + g[2], sep)
        /\ DigitsAt(t, i + g[1] + g[2] + 2, g[3])}
Greediest(G) ==
    CHOOSE g \in G : \A h \in G :
        \/ g[1] > h[1]
        \/ (g[1] = h[1] /\ g[2] > h[2])
        \/ (g[1] = h[1] /\ g[2] = h[2] /\ g[3] >= h[3])
re_search(t, sep) ==
    LET starts == {i \in 1..Len(t) : MatchesAt(t, i, sep) # {}}
    IN  IF starts = {} THEN None
        ELSE LET i == CHOOSE i \in starts : \A j \in starts : i <= j
                 g == Greediest(MatchesAt(t, i, sep))
             IN  Some([day |-> DigitsVal(SubSeq(t, i, i + g[1] - 1)),
                       month |-> DigitsVal(SubSeq(t, i + g[1] + 1, i + g[1] + g[2])),
                       year |-> DigitsVal(SubSeq(t, i + g[1] + g[2] + 2, i + g[1] + g[2] + 1 + g[3]))])

\* the repair reading the first number as the month
fix_turkish_date_month_first(date_str) ==
    IF date_str = <<>> THEN None
    ELSE LET match1 == re_search(date_str, "/")
             match2 == re_search(date_str, ".")
             match3 == re_search(date_str, "-")
             match == IF ~IsNone(match1) THEN match1 ELSE IF ~IsNone(match2) THEN match2 ELSE match3
         IN  IF IsNone(match) THEN None
             ELSE LET day == Val(match).month
                      month == Val(match).day
                      year == IF Val(match).year < 100
                              THEN (IF Val(match).year <= 30 THEN Val(match).year + 2000
                                    ELSE Val(match).year + 1900)
                              ELSE Val(match).year
                  IN  IF day \in 1..31 /\ month \in 1..12
                      THEN (IF year >= 1 /\ day <= DaysInMonth(year, month)
                            THEN Some(StrftimeYmd([year |-> year, month |-> month, day |-> day]))
                            ELSE None)
                      ELSE None

\* fix_turkish_date: the text of the date found, or None
fix_turkish_date(date_str) ==
    IF date_str = <<>> THEN None
    ELSE LET match1 == re_search(date_str, "/")
             match2 == re_search(date_str, ".")
             match3 == re_search(date_str, "-")
             match == IF ~IsNone(match1) THEN match1 ELSE IF ~IsNone(match2) THEN match2 ELSE match3
         IN  IF IsNone(match) THEN None
             ELSE LET day == Val(match).day
                      month == Val(match).month
                      year == IF Val(match).year < 100
                              THEN (IF Val(match).year <= 30 THEN Val(match).year + 2000
                                    ELSE Val(match).year + 1900)
                              ELSE Val(match).year
                  IN  IF day \in 1..31 /\ month \in 1..12
                      THEN (IF year >= 1 /\ day <= DaysInMonth(year, month)
                            THEN Some(StrftimeYmd([year |-> year, month |-> month, day |-> day]))
                            ELSE None)
                      ELSE None

UnknownMerchant == <<"U","n","k","n","o","w","n"," ","M","e","r","c","h","a","n","t">>

\* the truth value of data['total_amount']
AmountTruthy(total_amount) ==
    /\ ~IsNone(total_amount)
    /\ IF Val(total_amount).kind = "number" THEN Val(total_amount).value # 0
       ELSE Val(total_amount).text # <<>>
\* float(data['total_amount'])
AmountFloat(amount) ==
    IF amount.kind = "number" THEN [ok |-> TRUE, value |-> amount.value]
    ELSE ParseFloat(amount.text)

\* data['extraction_notes'] += note, the key created where it is missing
AddNote(extraction_notes, note) ==
    Some((IF IsNone(extraction_notes) THEN <<>> ELSE Val(extraction_notes)) \o <<note>>)

\* the amount check of validate_extracted_data
ValidatedAmount(data) ==
    IF ~AmountTruthy(data.total_amount) THEN data
    ELSE LET f == AmountFloat(Val(data.total_amount))
         IN  IF ~f.ok THEN [data EXCEPT !.total_amount = None, !.confidence = Some("low")]
             ELSE [data EXCEPT !.total_amount = Some([kind |-> "number", value |-> f.value]),
                               !.confidence = IF f.value <= 0 THEN Some("low") ELSE @]

\* the date check of validate_extracted_data
ValidatedDate(data, after_midnight) ==
    LET today == StrftimeYmd(Today)
    IN  IF IsNone(data.date) \/ Val(data.date) = <<>>
        THEN [data EXCEPT !.date = Some(today)]
        ELSE LET parsed_date == Strptime(Val(data.date))
                 date_fixed == fix_turkish_date(Val(data.date))
             IN  IF parsed_date.ok
                 THEN (IF Abs(DaysBetween(parsed_date, Today, after_midnight)) > 365
                       THEN [data EXCEPT !.date = Some(today), !.confidence = Some("medium"),
                                         !.extraction_notes = AddNote(@, " Date adjusted (seemed incorrect).")]
                       ELSE data)
                 ELSE IF ~IsNone(date_fixed)
                 THEN [data EXCEPT !.date = date_fixed, !.confidence = Some("medium"),
                                   !.extraction_notes = AddNote(@, " Date format corrected.")]
                 ELSE [data EXCEPT !.date = Some(today), !.confidence = Some("medium"),
                                   !.extraction_notes = AddNote(@, " Date unclear, used today's date.")]

\* the checks of items, confidence and merchant name
ValidatedRest(data) ==
    LET items == IF data.items.list THEN data.items ELSE [list |-> TRUE, value |-> <<>>]
        confidence == IF data.confidence \in {Some("high"), Some("medium"), Some("low")}
                      THEN data.confidence ELSE Some("medium")
    IN  IF IsNone(data.merchant_name) \/ StrStrip(Val(data.merchant_name)) = <<>>
        THEN [data EXCEPT !.items = items, !.confidence = Some("low"),
                          !.merchant_name = Some(UnknownMerchant)]
        ELSE [data EXCEPT !.items = items, !.confidence = confidence]

validate_extracted_data(data, after_midnight) ==
    ValidatedRest(ValidatedDate(ValidatedAmount(data), after_midnight))

\* the extraction of a receipt (llm_service.py:95) passes the record the
\* structuring stage returned to validate_extracted_data; `validation` keeps
\* the record that went in and, once validated, the record that came out
validate ==
    /\ validation # None
    /\ IsNone(Val(validation).validated)
    /\ validation' = Some([Val(validation) EXCEPT !.validated =
                                Some(validate_extracted_data(Val(validation).data,
                                                             Val(validation).after_midnight))])
    /\ UNCHANGED <<expenses, users, messaging, report, batch, services, phone_numbers, dispatch>>

\* the records of the structuring stage: a missing key is None
\* the dates: no date, '', today, last month, 365 days back, 366 days
\* ahead, 400 days ahead, '15/03/25', '05.07.24', '3-7-2025',
\* '2025-02-30', '31/02/25', 'yesterday'
ValidatedDates ==
    {None,
     Some(<<>>),
     Some(StrftimeYmd(Today)),
     Some(DateJune),
     Some(<<"2","0","2","4","-","0","7","-","1","5">>),
     Some(<<"2","0","2","6","-","0","7","-","1","6">>),
     Some(<<"2","0","2","6","-","0","8","-","1","9">>),
     Some(<<"1","5","/","0","3","/","2","5">>),
     Some(<<"0","5",".","0","7",".","2","4">>),
     Some(<<"3","-","7","-","2","0","2","5">>),
     Some(<<"2","0","2","5","-","0","2","-","3","0">>),
     Some(<<"3","1","/","0","2","/","2","5">>),
     Some(<<"y","e","s","t","e","r","d","a","y">>)}
ValidatedAmounts ==
    {None,
     Some([kind |-> "number", value |-> 45500]),
     Some([kind |-> "number", value |-> 0]),
     Some([kind |-> "number", value |-> 0 - 5000]),
     Some([kind |-> "text", text |-> <<"4","5",".","5","0">>]),
     Some([kind |-> "text", text |-> <<"1","2",",","5"," ","T","L">>])}
ValidatedConfidences == {None, Some("high"), Some("medium"), Some("low"), Some("certain")}
ValidatedMerchants == {None, Some(NameA101), Some(<<" ", " ">>)}
ValidatedNotes == {None, Some(<<"Receipt is blurry.">>)}
ValidatedItems == {[list |-> TRUE, value |-> <<ItemBread>>], [list |-> FALSE, value |-> <<>>]}
StructuredRecords ==
    [merchant_name : ValidatedMerchants, total_amount : ValidatedAmounts, date : ValidatedDates,
     confidence : ValidatedConfidences, extraction_notes : ValidatedNotes, items : ValidatedItems]

\* a record of the structuring stage is about to be validated, before or
\* after midnight
InitValidate ==
    /\ pending_receipts = EmptyDict
    /\ pending_manual_entries = EmptyDict
    /\ manual_entry_states = EmptyDict
    /\ expenses = <<>>
    /\ users = {}
    /\ outbox = <<>>
    /\ calls = <<>>
    /\ staged = 0
    /\ log = <<>>
    /\ envelope = None
    /\ workers = [w \in Workers |-> [pc |-> "idle"]]
    /\ reads = None
    /\ report = None
    /\ batch = [pc |-> "idle"]
    /\ services = [sms_service |-> TRUE, whatsapp_service |-> TRUE]
    /\ phone_numbers = EmptyDict
    /\ \E data \in StructuredRecords, after_midnight \in BOOLEAN :
            validation = Some([data |-> data, after_midnight |-> after_midnight, validated |-> None])

Validate == validate

NextValidate == Validate

SpecValidate == InitValidate /\ [][NextValidate]_vars

\* the date check alone: records that differ in their date, in the
\* confidence they come with and in having notes
RepairDates ==
    {<<"1","5","/","0","3","/","2","5">>,
     <<"0","5",".","0","7",".","2","4">>,
     <<"1","5","-","0","3","-","2","0","2","5">>,
     <<"3","-","7","-","2","0","2","5">>,
     <<"1","/","2","/","3","0">>,
     <<"0","1","/","0","1","/","3","1">>,
     <<"1","5",".","0","3",".","9","9">>,
     <<"1","5","/","1","3","/","2","5">>,
     <<"3","2","/","0","1","/","2","5">>,
     <<"3","1","/","0","2","/","2","5">>,
     <<"2","9",".","0","2",".","2","4">>,
     <<"2","9",".","0","2",".","2","5">>,
     <<"0","/","5","/","2","5">>,
     <<"5","/","0","/","2","5">>,
     <<"2","0","2","6","-","0","8","-","1","9">>,
     <<"2","0","2","5","-","0","6","-","2","8">>,
     <<"2","0","2","4","-","0","7","-","1","5">>,
     <<"2","0","2","6","-","0","7","-","1","6">>,
     <<"1","2","/","1","1","/","2","0","2","4">>,
     <<"0","7","-","0","4","-","0","0">>}
DatedRecords ==
    [merchant_name : {Some(NameA101)}, total_amount : {Some([kind |-> "number", value |-> 45500])},
     date : {Some(d) : d \in RepairDates}, confidence : {Some("high"), Some("medium"), Some("low")},
     extraction_notes : ValidatedNotes, items : {[list |-> TRUE, value |-> <<ItemBread>>]}]
InitDates ==
    /\ pending_receipts = EmptyDict
    /\ pending_manual_entries = EmptyDict
    /\ manual_entry_states = EmptyDict
    /\ expenses = <<>>
    /\ users = {}
    /\ outbox = <<>>
    /\ calls = <<>>
    /\ staged = 0
    /\ log = <<>>
    /\ envelope = None
    /\ workers = [w \in Workers |-> [pc |-> "idle"]]
    /\ reads = None
    /\ report = None
    /\ batch = [pc |-> "idle"]
    /\ services = [sms_service |-> TRUE, whatsapp_service |-> TRUE]
    /\ phone_numbers = EmptyDict
    /\ \E data \in DatedRecords, after_midnight \in BOOLEAN :
            validation = Some([data |-> data, after_midnight |-> after_midnight, validated |-> None])

SpecDates == InitDates /\ [][NextValidate]_vars

\* ------------------------------------------------------------------------
\* The image pipeline with its validator: what the structuring stage
\* returned is validated, and the validated record is what the handler gets
\* as llm_result['data']
\* ------------------------------------------------------------------------
\* the validated record as the handlers read it
ReceiptData(validated) ==
    [merchant_name |-> Val(validated.merchant_name),
     total_amount |-> IF IsNone(validated.total_amount) THEN None
                      ELSE Some(Val(validated.total_amount).value),
     date |-> Val(validated.date),
     items |-> validated.items.value,
     confidence |-> Val(validated.confidence)]

\* LLMService.process_receipt_text from the parsed JSON on
process_receipt_text(structured, after_midnight) ==
    [success |-> TRUE, data |-> ReceiptData(validate_extracted_data(structured, after_midnight))]

StructuredGood ==
    [merchant_name |-> Some(NameA101), total_amount |-> Some([kind |-> "number", value |-> 45500]),
     date |-> Some(DateJune), confidence |-> Some("high"), extraction_notes |-> None,
     items |-> [list |-> TRUE, value |-> <<ItemBread>>]]
\* the record with no date, with a date in words, with an amount that is
\* not a number, with a blank merchant, with a total of zero, with a
\* negative total
PipelineRecords ==
    {StructuredGood,
     [StructuredGood EXCEPT !.date = None],
     [StructuredGood EXCEPT !.date = Some(<<"y","e","s","t","e","r","d","a","y">>)],
     [StructuredGood EXCEPT !.total_amount = Some([kind |-> "text", text |-> <<"1","2",",","5"," ","T","L">>])],
     [StructuredGood EXCEPT !.merchant_name = Some(<<" ", " ">>)],
     [StructuredGood EXCEPT !.total_amount = Some([kind |-> "number", value |-> 0])],
     [StructuredGood EXCEPT !.total_amount = Some([kind |-> "number", value |-> 0 - 5000])]}

StructuredImageMessage ==
    \E s \in Senders, structured \in PipelineRecords, after_midnight \in BOOLEAN :
        Receive([type |-> "image", from |-> s, structured |-> structured,
                 image |-> ImageOf(process_receipt_text(structured, after_midnight).data)])

NextPipeline == StructuredImageMessage

SpecPipeline == Init /\ [][NextPipeline]_vars

\* the pipeline followed by the rate choice that commits what it staged
NextAmounts == StructuredImageMessage \/ InteractiveMessage

SpecAmounts == Init /\ [][NextAmounts]_vars

\* ------------------------------------------------------------------------
\* Vocabulary of the summaries
\* ------------------------------------------------------------------------
\* the response held is a summary of the given kind, computed on the table
\* as it is now
CurrentReport(kind) ==
    /\ report # None
    /\ Val(report).kind = kind
    /\ Val(report).at = Len(expenses)
\* the positions of the rows of a user in a month, and in a year
RowsOf(user_id, month_year) ==
    {i \in 1..Len(expenses) : expenses[i].user_id = user_id /\ expenses[i].month_year = month_year}
RowsOfYear(user_id, year) ==
    {i \in 1..Len(expenses) : expenses[i].user_id = user_id /\ expenses[i].expense_date.year = year}
\* the sum of a field over a set of positions
RECURSIVE SumAt(_, _)
SumAt(I, field) ==
    IF I = {} THEN 0
    ELSE LET i == CHOOSE i \in I : TRUE IN expenses[i][field] + SumAt(I \ {i}, field)
SummaryFields ==
    {"top_merchants", "top_merchant", "rate_breakdown", "average_transaction",
     "highest_spending_day", "highest_spending_amount"}

\* ------------------------------------------------------------------------
\* C12: the monthly summary of a user and month with no expenses has
\* transaction count 0 and both totals 0, and carries every summary field:
\* top merchants, top merchant, rate breakdown, average transaction,
\* highest-spending day and its amount.
\* ------------------------------------------------------------------------
C12_EmptySummaryHasEveryField ==
    (/\ CurrentReport("monthly_summary")
     /\ RowsOf(Val(report).user_id, Val(report).period) = {})
        => /\ Val(report).value.transaction_count = 0
           /\ Val(report).value.mwk_total = 0
           /\ Val(report).value.tl_total = 0
           /\ SummaryFields \subseteq DOMAIN Val(report).value

\* ------------------------------------------------------------------------
\* C13: the count and the two totals of a monthly summary are the count
\* and the sums of exactly the rows of that user and month; computing a
\* summary leaves the expenses unchanged; and a summary computed right
\* after another of the same user and month, with no commit in between, is
\* equal to it.
\* ------------------------------------------------------------------------
SummaryMatchesRows ==
    CurrentReport("monthly_summary") =>
        LET I == RowsOf(Val(report).user_id, Val(report).period)
        IN  /\ Val(report).value.transaction_count = Cardinality(I)
            /\ Val(report).value.mwk_total = SumAt(I, "amount_mwk")
            /\ Val(report).value.tl_total = SumAt(I, "amount_tl")
IsSummary(r) == r # None /\ Val(r).kind \in {"monthly_summary", "yearly_summary"}

C13_SummaryOfExactlyItsRows ==
    [][/\ SummaryMatchesRows'
       /\ (IsSummary(report') /\ Val(report').at = Len(expenses')) => expenses' = expenses
       /\ (/\ IsSummary(report) /\ IsSummary(report')
           /\ Val(report).at = Len(expenses) /\ Val(report').at = Len(expenses')
           /\ Val(report').kind = Val(report).kind
           /\ Val(report').user_id = Val(report).user_id
           /\ Val(report').period = Val(report).period)
                => Val(report').value = Val(report).value]_vars

\* the June summary of s1 counts its two June rows, while the table also
\* holds a July row of s1 and a June row of s2
C13_Witness ==
    /\ CurrentReport("monthly_summary")
    /\ Val(report).user_id = "s1"
    /\ Val(report).period = MonthJune
    /\ Val(report).value.transaction_count = 2
    /\ Val(report).value.tl_total = 30000
    /\ \E i \in 1..Len(expenses) : expenses[i].user_id = "s2" /\ expenses[i].month_year = MonthJune
    /\ \E i \in 1..Len(expenses) : expenses[i].user_id = "s1" /\ expenses[i].month_year # MonthJune
\* ------------------------------------------------------------------------
\* Rankings: merchants and days of a set of rows
\* ------------------------------------------------------------------------
MerchantsAt(I) == {expenses[i].merchant : i \in I}
MerchantTotalAt(I, merchant) == SumAt({i \in I : expenses[i].merchant = merchant}, "amount_mwk")
\* the position of the first row of the merchant
FirstAt(I, merchant) ==
    CHOOSE i \in I : /\ expenses[i].merchant = merchant
                     /\ \A j \in I : expenses[j].merchant = merchant => i <= j
DaysAt(I) == {expenses[i].expense_date.day : i \in I}
DayTotalAt(I, day) == SumAt({i \in I : expenses[i].expense_date.day = day}, "amount_mwk")
SmallerOf(a, b) == IF a < b THEN a ELSE b

\* a ranking lists the `limit` largest merchants of the rows I, each with
\* its total over I, in non-increasing order of total
IsRanking(top, I, limit) ==
    /\ Len(top) = SmallerOf(limit, Cardinality(MerchantsAt(I)))
    /\ \A k \in 1..Len(top) :
            /\ top[k][1] \in MerchantsAt(I)
            /\ top[k][2] = MerchantTotalAt(I, top[k][1])
    /\ \A k, l \in 1..Len(top) : k < l => top[k][1] # top[l][1] /\ top[k][2] >= top[l][2]
    /\ \A merchant \in MerchantsAt(I) \ {top[k][1] : k \in 1..Len(top)} :
            \A k \in 1..Len(top) : MerchantTotalAt(I, merchant) <= top[k][2]

\* ------------------------------------------------------------------------
\* C14: for a month with at least one expense, top_merchants holds
\* min(3, number of distinct merchants) entries, each with the merchant's
\* total of the month, in non-increasing order of total; no merchant left
\* out has a larger total than one listed; merchants of equal total are in
\* the order of their first expense in the table.
\* ------------------------------------------------------------------------
C14_TopMerchants ==
    (/\ CurrentReport("monthly_summary")
     /\ RowsOf(Val(report).user_id, Val(report).period) # {})
        => LET I == RowsOf(Val(report).user_id, Val(report).period)
               top == Val(report).value.top_merchants
           IN  /\ IsRanking(top, I, 3)
               /\ \A k, l \in 1..Len(top) :
                    (k < l /\ top[k][2] = top[l][2]) => FirstAt(I, top[k][1]) < FirstAt(I, top[l][1])
               /\ Val(report).value.top_merchant = top[1][1]

\* four merchants in June, Sok entered before A101 with the same total: the
\* ranking is Bim, Sok, A101 and Migros is left out
C14_Witness ==
    /\ CurrentReport("monthly_summary")
    /\ Val(report).user_id = "s1"
    /\ Val(report).period = MonthJune
    /\ Cardinality(MerchantsAt(RowsOf("s1", MonthJune))) = 4
    /\ Val(report).value.top_merchants = <<<<NameBim, 1020000>>, <<NameSok, 510000>>, <<NameA101, 510000>>>>

\* ------------------------------------------------------------------------
\* C15: the highest-spending day of a monthly summary is a day of the month
\* whose total is maximal among the days of the month, and of several days
\* with the maximal total it is the smallest day number.
\* ------------------------------------------------------------------------
C15_HighestDaySmallestOnTie ==
    (/\ CurrentReport("monthly_summary")
     /\ RowsOf(Val(report).user_id, Val(report).period) # {})
        => LET I == RowsOf(Val(report).user_id, Val(report).period)
               day == Val(report).value.highest_spending_day
           IN  /\ day \in DaysAt(I)
               /\ Val(report).value.highest_spending_amount = DayTotalAt(I, day)
               /\ \A other \in DaysAt(I) : DayTotalAt(I, other) <= DayTotalAt(I, day)
               /\ \A other \in DaysAt(I) : DayTotalAt(I, other) = DayTotalAt(I, day) => day <= other

\* ------------------------------------------------------------------------
\* C16: the merchant ranking of a yearly summary is the top 5 merchants by
\* total over all the user's expenses of the year, in non-increasing
\* order, each with its full yearly total.
\* ------------------------------------------------------------------------
C16_YearlyTopMerchants ==
    CurrentReport("yearly_summary")
        => IsRanking(Val(report).value.top_merchants,
                     RowsOfYear(Val(report).user_id, Val(report).period), 5)

\* ------------------------------------------------------------------------
\* C17: send_dual_delivery returns a result for every outcome of the SMS
\* call (not attempted, returns failure, raises, returns success) and of
\* the WhatsApp call (not attempted, returns None, raises, returns a
\* response). A channel's success flag is true exactly when the channel was
\* configured and its own call returned success, whatever the other channel
\* did; an attempted channel that failed has its error recorded, and a
\* channel that was not attempted has neither success nor error.
\* ------------------------------------------------------------------------
C17_DualDeliveryIsolatesChannels ==
    CurrentReport("dual_delivery")
        => LET r == Val(report)
               delivery_result == r.value
               sms_sent == r.sms_call.kind = "returns" /\ r.sms_call.success
               whatsapp_sent == r.whatsapp_call.kind = "returns" /\ ~IsNone(r.whatsapp_call.result)
           IN  /\ DOMAIN delivery_result = {"sms_success", "sms_error", "whatsapp_success", "whatsapp_error"}
               /\ delivery_result.sms_success = (r.sms_attempted /\ sms_sent)
               /\ delivery_result.whatsapp_success = (r.whatsapp_attempted /\ whatsapp_sent)
               /\ (r.sms_attempted /\ ~delivery_result.sms_success) => ~IsNone(delivery_result.sms_error)
               /\ (r.whatsapp_attempted /\ ~delivery_result.whatsapp_success)
                    => ~IsNone(delivery_result.whatsapp_error)
               /\ ~r.sms_attempted => IsNone(delivery_result.sms_error)
               /\ ~r.whatsapp_attempted => IsNone(delivery_result.whatsapp_error)

\* the SMS call raised and the WhatsApp call was still made and succeeded
C17_Witness ==
    /\ CurrentReport("dual_delivery")
    /\ Val(report).sms_attempted
    /\ Val(report).sms_call.kind = "raises"
    /\ Val(report).value = [sms_success |-> FALSE, sms_error |-> Some("sms down"),
                            whatsapp_success |-> TRUE, whatsapp_error |-> None]

\* the users of the job that were handled with the given outcome
UsersHandled(P(_)) == {k \in 1..Len(batch.outcomes) : P(batch.outcomes[k])}
BothSucceeded(o) == o.status = "delivered" /\ o.sms_success /\ o.whatsapp_success
OneSucceeded(o) == o.status = "delivered" /\ (o.sms_success # o.whatsapp_success)
NoneSucceeded(o) == ~(o.status = "delivered" /\ (o.sms_success \/ o.whatsapp_success))

\* ------------------------------------------------------------------------
\* C18: when the monthly job returns, every due user is in exactly one of
\* the three buckets: dual_success counts the users for whom both channels
\* succeeded, dual_partial those for whom exactly one succeeded,
\* total_failure those for whom none succeeded, and the three add up to
\* total_users.
\* ------------------------------------------------------------------------
C18_EveryDueUserInOneBucket ==
    batch.pc = "returned"
        => LET stats == batch.delivery_stats
           IN  /\ stats.total_users = Len(batch.users_with_expenses)
               /\ stats.dual_success = Cardinality(UsersHandled(BothSucceeded))
               /\ stats.dual_partial = Cardinality(UsersHandled(OneSucceeded))
               /\ stats.total_failure = Cardinality(UsersHandled(NoneSucceeded))
               /\ stats.dual_success + stats.dual_partial + stats.total_failure = stats.total_users

\* the job over three users of which one got both messages, one only the
\* SMS, and one has neither a phone number nor a whatsapp id
C18_Example ==
    /\ batch.pc = "returned"
    /\ batch.delivery_stats.total_users = 3
    /\ batch.delivery_stats.dual_success = 1
    /\ batch.delivery_stats.dual_partial = 1
    /\ batch.delivery_stats.total_failure = 1
    /\ \E k \in 1..3 : /\ batch.users_with_expenses[k] = [whatsapp_id |-> "", phone_number |-> None]
                       /\ batch.outcomes[k].status = "delivered"
    /\ \E k \in 1..3 : /\ batch.outcomes[k].status = "delivered"
                       /\ batch.outcomes[k].sms_success
                       /\ ~batch.outcomes[k].whatsapp_success

Validated == Val(Val(validation).validated)
Replaced ==
    /\ validation # None
    /\ ~IsNone(Val(validation).validated)
    /\ Validated.date = Some(StrftimeYmd(Today))
    /\ Val(validation).data.date # Validated.date
NotesBefore == IF IsNone(Val(validation).data.extraction_notes) THEN <<>>
               ELSE Val(Val(validation).data.extraction_notes)

\* ------------------------------------------------------------------------
\* C20: whenever the record that leaves validation carries the current date
\* in place of the date the structuring stage gave (absent, unparsable, or
\* more than 365 days from today), its confidence is 'medium' or 'low' and
\* its extraction_notes are the notes it came with followed by one more
\* note.
\* ------------------------------------------------------------------------
C20_DateCorrectionDowngrades ==
    Replaced
        => /\ Validated.confidence \in {Some("medium"), Some("low")}
           /\ ~IsNone(Validated.extraction_notes)
           /\ Len(Val(Validated.extraction_notes)) = Len(NotesBefore) + 1
           /\ SubSeq(Val(Validated.extraction_notes), 1, Len(NotesBefore)) = NotesBefore

\* the same for the records that came with a date
C20_GivenDateCorrectionDowngrades ==
    (Replaced /\ Val(validation).data.date \notin {None, Some(<<>>)})
        => /\ Validated.confidence \in {Some("medium"), Some("low")}
           /\ ~IsNone(Validated.extraction_notes)
           /\ Len(Val(Validated.extraction_notes)) = Len(NotesBefore) + 1

\* a date text read as D sep M sep Y: one or two digits, the separator, one
\* or two digits, the separator, two or four digits
SepsAt(t, sep) == {i \in 1..Len(t) : t[i] = sep}
DayFirstBy(t, sep) ==
    IF Cardinality(SepsAt(t, sep)) # 2 THEN None
    ELSE LET s1 == CHOOSE i \in SepsAt(t, sep) : \A j \in SepsAt(t, sep) : i <= j
             s2 == CHOOSE i \in SepsAt(t, sep) : \A j \in SepsAt(t, sep) : j <= i
             D == SubSeq(t, 1, s1 - 1)
             M == SubSeq(t, s1 + 1, s2 - 1)
             Y == SubSeq(t, s2 + 1, Len(t))
         IN  IF /\ Len(D) \in {1, 2} /\ Len(M) \in {1, 2} /\ Len(Y) \in {2, 4}
                /\ AllDigits(D) /\ AllDigits(M) /\ AllDigits(Y)
             THEN Some([day |-> DigitsVal(D), month |-> DigitsVal(M),
                        year |-> IF Len(Y) = 4 THEN DigitsVal(Y)
                                 ELSE IF DigitsVal(Y) <= 30 THEN 2000 + DigitsVal(Y)
                                 ELSE 1900 + DigitsVal(Y)])
             ELSE None
DayFirst(t) ==
    IF ~IsNone(DayFirstBy(t, "/")) THEN DayFirstBy(t, "/")
    ELSE IF ~IsNone(DayFirstBy(t, ".")) THEN DayFirstBy(t, ".")
    ELSE DayFirstBy(t, "-")
IsCalendarDate(d) ==
    /\ d.year >= 1
    /\ d.month \in 1..12
    /\ d.day \in 1..DaysInMonth(d.year, d.month)
IsValidated == validation # None /\ ~IsNone(Val(validation).validated)
DateGiven == Val(Val(validation).data.date)
DateFarAhead == <<"2","0","2","6","-","0","8","-","1","9">>

\* ------------------------------------------------------------------------
\* C21: a date text D sep M sep Y (sep one of / . -) leaves validation as
\* the date with day D and month M, a two-digit year 00-30 read as 20yy and
\* 31-99 as 19yy; where D, M or the calendar date is invalid the record
\* leaves with today's date. '15/03/25' gives 2025-03-15 and '05.07.24'
\* gives 2024-07-05. A well-formed date 400 days after today leaves as
\* today's date with confidence 'medium' or 'low'.
\* ------------------------------------------------------------------------
C21_DayFirstDateRepair ==
    IsValidated
        => /\ ~IsNone(DayFirst(DateGiven))
                => Validated.date =
                        IF IsCalendarDate(Val(DayFirst(DateGiven)))
                        THEN Some(StrftimeYmd(Val(DayFirst(DateGiven))))
                        ELSE Some(StrftimeYmd(Today))
           /\ DateGiven = <<"1","5","/","0","3","/","2","5">>
                => Validated.date = Some(<<"2","0","2","5","-","0","3","-","1","5">>)
           /\ DateGiven = <<"0","5",".","0","7",".","2","4">>
                => Validated.date = Some(<<"2","0","2","4","-","0","7","-","0","5">>)
           /\ DateGiven = DateFarAhead
                => /\ Validated.date = Some(StrftimeYmd(Today))
                   /\ Validated.confidence \in {Some("medium"), Some("low")}

\* '15/03/25' came with confidence 'high' and left as 2025-03-15
C21_Witness ==
    /\ IsValidated
    /\ DateGiven = <<"1","5","/","0","3","/","2","5">>
    /\ Val(validation).data.confidence = Some("high")
    /\ Validated.date = Some(<<"2","0","2","5","-","0","3","-","1","5">>)

\* the amount the structuring stage gave is not a number, or is zero or
\* negative
AmountGiven == Val(validation).data.total_amount
AmountIsBad ==
    /\ ~IsNone(AmountGiven)
    /\ IF Val(AmountGiven).kind = "number" THEN Val(AmountGiven).value <= 0
       ELSE ~ParseFloat(Val(AmountGiven).text).ok \/ ParseFloat(Val(AmountGiven).text).value <= 0

\* ------------------------------------------------------------------------
\* C22: a record whose total amount is not a number, is zero or is negative
\* leaves validation with confidence 'low', whatever confidence it came
\* with and whatever the validator did to its date, items and merchant.
\* ------------------------------------------------------------------------
C22_BadAmountForcesLow ==
    (IsValidated /\ AmountIsBad) => Validated.confidence = Some("low")

\* the same for the amounts the amount check acts on (text that is not a
\* number, a negative number) on records whose date the validator keeps
C22_BadAmountLowWhenDateKept ==
    (/\ IsValidated
     /\ AmountIsBad
     /\ AmountGiven # Some([kind |-> "number", value |-> 0])
     /\ Validated.date = Val(validation).data.date)
        => Validated.confidence = Some("low")

\* what the structuring stage returned for the image handled last
StructuredLast == LastEvent.structured
NeedsCorrection(structured) ==
    \/ IsNone(structured.date)
    \/ ~Strptime(Val(structured.date)).ok
    \/ (~IsNone(structured.total_amount) /\ Val(structured.total_amount).kind = "text"
            /\ ~ParseFloat(Val(structured.total_amount).text).ok)
    \/ IsNone(structured.merchant_name)
    \/ StrStrip(Val(structured.merchant_name)) = <<>>

\* ------------------------------------------------------------------------
\* C23: an image whose text was recognised and whose structured record has
\* a bad or missing date, an amount that is not a number or an empty
\* merchant ends with a pending receipt staged for the sender and the rate
\* prompt sent, not with a failure message.
\* ------------------------------------------------------------------------
C23_CorrectionsAreNotErrors ==
    (log # <<>> /\ NeedsCorrection(StructuredLast))
        => /\ HasPendingReceipt(LastEvent.from)
           /\ outbox = <<"processing", "rate_selection", "rate_buttons">>

\* the same for the corrections of date and merchant
C23_DateAndMerchantCorrectionsAreNotErrors ==
    (/\ log # <<>>
     /\ NeedsCorrection(StructuredLast)
     /\ StructuredLast.total_amount = StructuredGood.total_amount)
        => /\ HasPendingReceipt(LastEvent.from)
           /\ pending_receipts[LastEvent.from] = LastEvent.image.data[1]
           /\ outbox = <<"processing", "rate_selection", "rate_buttons">>

\* the envelope has no entry, no changes, or no list of messages
NoEntry(webhook_data) == Falsy(webhook_data.entry)
NoChanges(webhook_data) ==
    ~NoEntry(webhook_data) /\ Falsy(Val(webhook_data.entry).list[1].changes)
NoMessageList(webhook_data) ==
    /\ ~NoEntry(webhook_data)
    /\ ~NoChanges(webhook_data)
    /\ LET value == Val(Val(webhook_data.entry).list[1].changes).list[1].value
       IN  \/ IsNone(value)
           \/ Val(value).null
           \/ IsNone(Val(value).messages)
           \/ Val(Val(value).messages).null
NothingInside(webhook_data) ==
    NoEntry(webhook_data) \/ NoChanges(webhook_data) \/ NoMessageList(webhook_data)

\* ------------------------------------------------------------------------
\* C24: an envelope with no entry, no changes or no inner message list is
\* a no-op: the dispatcher returns without raising, sends nothing, creates
\* no user and leaves the expenses and every sender's dialogue state as
\* they were.
\* ------------------------------------------------------------------------
C24_EmptyEnvelopeIsNoOp ==
    [][(/\ envelope' # envelope
        /\ NothingInside(Val(envelope').webhook_data))
            => /\ Val(envelope').outcome = "returned"
               /\ Val(envelope').sent = 0
               /\ Val(envelope').messages = <<>>
               /\ UNCHANGED <<outbox, users, expenses, dialogue, log, staged>>]_vars

C24_Witness ==
    /\ ~IsNone(envelope)
    /\ NoMessageList(Val(envelope).webhook_data)
    /\ Val(envelope).outcome = "returned"
    /\ HasPendingReceipt("s1")
    /\ users = {"s1"}

\* the messages of the envelope, as the webhook listed them
Listed(webhook_data) ==
    Val(Val(Val(Val(webhook_data.entry).list[1].changes).list[1].value).messages).list

\* ------------------------------------------------------------------------
\* C25: no failure is fatal to the dispatcher: it never lets an exception
\* out, and when handling one message of an envelope fails, the messages
\* after it are still handled, in the order of the envelope.
\* ------------------------------------------------------------------------
C25_NoFailureIsFatal ==
    ~IsNone(envelope)
        => /\ Val(envelope).outcome # "raised"
           /\ (Val(envelope).outcome = "returned" /\ ~NothingInside(Val(envelope).webhook_data))
                => /\ Len(log) = Val(envelope).start + Len(Listed(Val(envelope).webhook_data))
                   /\ \A i \in 1..Len(Listed(Val(envelope).webhook_data)) :
                        log[Val(envelope).start + i] = Listed(Val(envelope).webhook_data)[i]

\* the first message of two failed at the store, and the second one, a rate
\* choice, was answered
C25_Witness ==
    /\ ~IsNone(envelope)
    /\ Val(envelope).outcome = "returned"
    /\ Val(envelope).failures = <<TRUE, FALSE>>
    /\ LastEvent = Listed(Val(envelope).webhook_data)[2]
    /\ LastEvent.type = "interactive"
    /\ outbox # <<>>

\* the rows the table had are all still there, unchanged and in place
AwaitingAmountOf(s) == s \in DOMAIN manual_entry_states /\ manual_entry_states[s].awaiting_amount
RowsKept ==
    /\ Len(expenses') >= Len(expenses)
    /\ \A i \in 1..Len(expenses) : i <= Len(expenses') /\ expenses'[i] = expenses[i]
\* the step handles a rate choice
CommitsRateChoice == Len(log') = Len(log) + 1 /\ IsRateChoice(Handled)

\* ------------------------------------------------------------------------
\* C26: the Expense store is append-only and written only by the commit:
\* no step modifies or removes a row, the number of rows never goes down,
\* and a row is added only by a step that handles a rate choice.
\* ------------------------------------------------------------------------
C26_StoreIsAppendOnly ==
    [][/\ RowsKept
       /\ (expenses' # expenses) => /\ CommitsRateChoice
                                    /\ HasStagedRecord(Handled.from)
                                    /\ Len(expenses') = Len(expenses) + 1]_vars

\* a receipt was committed, a manual entry is under way, and the monthly
\* job that delivered the row's month has returned
C26_Witness ==
    /\ Len(expenses) = 1
    /\ batch.pc = "returned"
    /\ batch.outcomes # <<>>
    /\ AwaitingAmountOf("s1")
    /\ Len(log) = 3

\* ------------------------------------------------------------------------
\* C27: the handling of two events of one sender by concurrent workers
\* does not interleave on the sender's state, so that two concurrent rate
\* choices against one staged record commit exactly one Expense: there are
\* never more rows than records staged.
\* ------------------------------------------------------------------------
C27_OneCommitPerStagedRecord == Len(expenses) <= staged

\* while one worker is between its read and its deletion, the other one is
\* not inside handle_rate_selection for the same sender
C27_WorkersDoNotInterleave ==
    \A w1 \in Workers, w2 \in Workers :
        (w1 # w2 /\ workers[w1].pc # "idle" /\ workers[w2].pc # "idle")
            => workers[w1].from_number # workers[w2].from_number

\* the stage a sender's manual entry is at
AwaitingAmount(s) == HasManualEntryState(s) /\ manual_entry_states[s].awaiting_amount
AwaitingMerchant(s) == HasManualEntryState(s) /\ manual_entry_states[s].awaiting_merchant
\* the step handles a text that is no command
HandlesText(s) == Handles(s) /\ Handled.type = "text" /\ ~IsCommandWord(Handled.body)
\* the stage and the amount stored with it are what they were, and no
\* record was staged
StageKept(s) ==
    /\ HasManualEntryState(s)'
    /\ manual_entry_states'[s] = manual_entry_states[s]
    /\ staged' = staged
    /\ UNCHANGED <<pending_receipts, pending_manual_entries>>

\* ------------------------------------------------------------------------
\* C28: invalid input at a stage of a manual entry neither advances nor
\* resets the stage: while the amount is awaited a text that is no command
\* and no decimal in [0.01, 10000.00], and while the merchant is awaited a
\* name of fewer than 2 or more than 50 characters after trimming, leave
\* the stage and the stored amount as they were and stage no record.
\* ------------------------------------------------------------------------
C28_InvalidInputKeepsStage ==
    [][\A s \in Senders :
        (/\ HandlesText(s)
         /\ \/ AwaitingAmount(s) /\ ~IsValidAmountText(Handled.body)
            \/ AwaitingMerchant(s) /\ ~IsValidName(Handled.body))
            => StageKept(s)]_vars

\* the same for the names that do not read as an amount
C28_InvalidNameKeepsStage ==
    [][\A s \in Senders :
        (/\ HandlesText(s)
         /\ ~is_amount_entry(Normalized[Handled.body])
         /\ \/ AwaitingAmount(s)
            \/ AwaitingMerchant(s) /\ ~IsValidName(Handled.body))
            => StageKept(s)]_vars

\* ------------------------------------------------------------------------
\* C29: a text that is no command and reads as a decimal in
\* [0.01, 10000.00] is an amount entry only while the amount is awaited;
\* while the merchant is awaited it is the merchant name and the stored
\* amount stays, and for a sender with no manual entry nothing changes.
\* ------------------------------------------------------------------------
C29_AmountOnlyWhileAwaited ==
    [][\A s \in Senders :
        (HandlesText(s) /\ IsValidAmountText(Handled.body))
            => /\ AwaitingMerchant(s)
                    => (HasManualEntryState(s)'
                            => manual_entry_states'[s].amount = manual_entry_states[s].amount)
               /\ ~HasManualEntryState(s)
                    => UNCHANGED <<dialogue, expenses, staged>>]_vars

\* what holds of it: the amount is taken while it is awaited, and a sender
\* with no manual entry keeps everything
C29_AmountTakenWhileAwaited ==
    [][\A s \in Senders :
        (HandlesText(s) /\ IsValidAmountText(Handled.body))
            => /\ AwaitingAmount(s)
                    => /\ AwaitingMerchant(s)'
                       /\ manual_entry_states'[s].amount = Some(AmountOf(Handled.body))
               /\ ~HasManualEntryState(s)
                    => UNCHANGED <<dialogue, expenses, staged>>]_vars

\* the step appends the row of this staged record
CommittedBy(record, is_manual_entry) ==
    /\ Len(expenses') = Len(expenses) + 1
    /\ expenses'[Len(expenses')].merchant = record.merchant_name
    /\ expenses'[Len(expenses')].confidence_level = (IF is_manual_entry THEN "manual" ELSE record.confidence)
\* the record the sender had in this dict is gone or is another one
Leaves(dict, s) == s \in DOMAIN dict /\ (s \in DOMAIN dict' => dict'[s] # dict[s])
\* the sender's record in this dict was replaced by one staged in this step
Superseded(dict, s) == s \in DOMAIN dict' /\ staged' = staged + 1

\* ------------------------------------------------------------------------
\* C30: a staged record, pending receipt or completed manual entry, leaves
\* the sender's state only by being committed as an Expense or by being
\* superseded by a newer staged record of the sender: a rate choice never
\* deletes a staged record that it did not commit.
\* ------------------------------------------------------------------------
C30_StagedRecordLeavesByCommit ==
    [][\A s \in Senders :
        /\ Leaves(pending_receipts, s)
                => \/ CommittedBy(pending_receipts[s], FALSE)
                   \/ Superseded(pending_receipts, s)
        /\ Leaves(pending_manual_entries, s)
                => \/ CommittedBy(pending_manual_entries[s], TRUE)
                   \/ Superseded(pending_manual_entries, s)]_vars

\* the same for a sender who has one staged record and not both
C30_OnlyStagedRecordLeavesByCommit ==
    [][\A s \in Senders :
        ~(HasPendingReceipt(s) /\ HasPendingManualEntry(s))
            => /\ Leaves(pending_receipts, s)
                    => \/ CommittedBy(pending_receipts[s], FALSE)
                       \/ Superseded(pending_receipts, s)
               /\ Leaves(pending_manual_entries, s)
                    => \/ CommittedBy(pending_manual_entries[s], TRUE)
                       \/ Superseded(pending_manual_entries, s)]_vars

\* the date of the record that left validation, and its distance in days
\* from the current date
DateLeft == Strptime(Val(Validated.date))
DaysFromToday == Abs(toordinal(DateLeft) - toordinal(Today))

\* ------------------------------------------------------------------------
\* C31: every record that leaves validation has a date that is a valid
\* YYYY-MM-DD calendar date and is no more than 365 days from the current
\* date, whichever path of the date check it took, the day-first repair
\* included.
\* ------------------------------------------------------------------------
C31_DateValidAndRecent ==
    IsValidated
        => /\ ~IsNone(Validated.date)
           /\ DateLeft.ok
           /\ IsCalendarDate(DateLeft)
           /\ DaysFromToday <= 365

\* the same for the dates that parse as YYYY-MM-DD before midnight or that
\* are absent or unreadable
C31_ParsedDateValidAndRecent ==
    (/\ IsValidated
     /\ \/ IsNone(Val(validation).data.date)
        \/ /\ ~Val(validation).after_midnight
           /\ IsNone(fix_turkish_date(DateGiven)) \/ Strptime(DateGiven).ok)
        => /\ DateLeft.ok
           /\ IsCalendarDate(DateLeft)
           /\ DaysFromToday <= 365

\* the source amount of a staged record is a number above zero
PositiveAmount(record) == ~IsNone(record.total_amount) /\ Val(record.total_amount) > 0

\* ------------------------------------------------------------------------
\* C32: every staged record and every committed Expense has a source
\* amount that is a number strictly greater than 0: a receipt whose
\* structured total is zero, negative or not a number is neither staged nor
\* committed with that amount.
\* ------------------------------------------------------------------------
C32_AmountsArePositive ==
    /\ \A s \in DOMAIN pending_receipts : PositiveAmount(pending_receipts[s])
    /\ \A s \in DOMAIN pending_manual_entries : PositiveAmount(pending_manual_entries[s])
    /\ \A k \in 1..Len(expenses) : expenses[k].amount_tl > 0

\* a total that is not a number is neither staged nor committed
C32_NoAmountIsNotStaged ==
    /\ \A s \in DOMAIN pending_receipts : ~IsNone(pending_receipts[s].total_amount)
    /\ \A s \in DOMAIN pending_manual_entries : ~IsNone(pending_manual_entries[s].total_amount)

\* the sender's entry in a dict is what it was: absent, or the same record
EntryKept(dict, s) ==
    /\ (s \in DOMAIN dict') <=> (s \in DOMAIN dict)
    /\ s \in DOMAIN dict => dict'[s] = dict[s]
\* the rows of a user, in their order
RowsOfSender(rows, s) == SelectSeq(rows, LAMBDA row : row.user_id = s)
\* the step handles an event of the sender, or is a step of a worker that
\* is handling the sender's rate choice
OnBehalfOf(s) ==
    \/ Handles(s)
    \/ \E w \in Workers : /\ workers[w].pc # "idle"
                          /\ workers[w].from_number = s
                          /\ workers'[w] # workers[w]

\* ------------------------------------------------------------------------
\* C33: senders are independent: a step taken for sender A, whether A's and
\* B's events come one after the other or interleave, never creates,
\* changes or deletes B's pending receipt, pending manual entry or
\* manual-entry stage and never commits an Expense for B.
\* ------------------------------------------------------------------------
C33_SendersAreIndependent ==
    [][\A b \in TwoSenders :
        OnBehalfOf(b)
            \/ /\ EntryKept(pending_receipts, b)
               /\ EntryKept(pending_manual_entries, b)
               /\ EntryKept(manual_entry_states, b)
               /\ RowsOfSender(expenses', b) = RowsOfSender(expenses, b)]_vars

\* s1's receipt was committed and cleared while s2 keeps a pending receipt
\* and a manual entry under way, and has no row
C33_Witness ==
    /\ RowsOfSender(expenses, "s1") # <<>>
    /\ RowsOfSender(expenses, "s2") = <<>>
    /\ "s1" \notin DOMAIN pending_receipts
    /\ "s2" \in DOMAIN pending_receipts
    /\ "s2" \in DOMAIN manual_entry_states
    /\ \A w \in Workers : workers[w].pc = "idle"

\* the step handles a rate choice of the sender and ends on the error path
RateChoiceFails(s) ==
    /\ Handles(s)
    /\ IsRateChoice(Handled)
    /\ outbox' = <<"error_saving_transaction">>

\* ------------------------------------------------------------------------
\* C34: the commit is atomic with respect to errors: when the handling of a
\* rate choice ends on the error path, no Expense was persisted for the
\* staged record and the staged record is still there, so that the rate
\* choice can be made again without a second Expense for the same record.
\* ------------------------------------------------------------------------
C34_CommitIsAtomic ==
    [][\A s \in Senders :
        RateChoiceFails(s)
            => /\ expenses' = expenses
               /\ HasStagedRecord(s)'
               /\ UNCHANGED dialogue]_vars

\* what holds of it: the staged record is still there after the error
C34_FailedCommitKeepsStagedRecord ==
    [][\A s \in Senders :
        RateChoiceFails(s) => HasStagedRecord(s)' /\ UNCHANGED dialogue]_vars

\* low < medium < high
Rank(confidence) == IF confidence = "low" THEN 1 ELSE IF confidence = "medium" THEN 2 ELSE 3
ConfidenceGiven == Val(validation).data.confidence

\* ------------------------------------------------------------------------
\* C35: validation never raises confidence: with low < medium < high, the
\* record leaves validation with a confidence no higher than the valid
\* confidence the structuring stage reported, and a record whose amount
\* check assigned 'low' leaves with 'low'.
\* ------------------------------------------------------------------------
C35_ConfidenceNeverRaised ==
    IsValidated
        => /\ ConfidenceGiven \in {Some("high"), Some("medium"), Some("low")}
                => Rank(Val(Validated.confidence)) <= Rank(Val(ConfidenceGiven))
           /\ (AmountIsBad /\ ValidatedAmount(Val(validation).data).confidence = Some("low"))
                => Validated.confidence = Some("low")

\* the same for the records whose date check changes nothing but, at most,
\* an absent date
C35_ConfidenceNeverRaisedWhenDateKept ==
    (/\ IsValidated
     /\ ValidatedDate(ValidatedAmount(Val(validation).data), Val(validation).after_midnight).confidence
            = ValidatedAmount(Val(validation).data).confidence)
        => /\ ConfidenceGiven \in {Some("high"), Some("medium"), Some("low")}
                => Rank(Val(Validated.confidence)) <= Rank(Val(ConfidenceGiven))
           /\ (AmountIsBad /\ ValidatedAmount(Val(validation).data).confidence = Some("low"))
                => Validated.confidence = Some("low")


\* ------------------------------------------------------------------------
\* C36: a monthly summary describes one set of rows
\* ------------------------------------------------------------------------
\* a summary with the analytics of its rows was computed query by query
SummaryRead ==
    /\ report # None
    /\ Val(report).kind = "monthly_summary"
    /\ "since" \in DOMAIN Val(report)
    /\ "rate_breakdown" \in DOMAIN Val(report).value
\* the totals, the count, the breakdown and the average agree
Coherent(summary) ==
    /\ summary.mwk_total = summary.rate_breakdown.POS + summary.rate_breakdown.ATM
    /\ summary.transaction_count > 0
    /\ summary.average_transaction = RoundDiv2(summary.mwk_total, summary.transaction_count)
\* the number of rows committed while the summary was computed
CommittedMeanwhile == Val(report).at - Val(report).since

\* C36: the mwk_total of a monthly summary equals the POS total plus the
\* ATM total of its rate breakdown, its transaction_count is the number of
\* the rows the breakdown was computed from (at least one), and its average
\* is mwk_total / transaction_count, also when rows are committed while
\* the summary is computed
C36_SummaryFromOneSnapshot == SummaryRead => Coherent(Val(report).value)

\* the summary agrees with itself when no row was committed between its
\* first and its last query
C36_QuietSummaryFromOneSnapshot ==
    (SummaryRead /\ CommittedMeanwhile = 0) => Coherent(Val(report).value)
C36_QuietWitness ==
    /\ SummaryRead
    /\ CommittedMeanwhile = 0
    /\ Val(report).value.transaction_count = 2
C36_Counterexample ==
    /\ SummaryRead
    /\ CommittedMeanwhile > 0
    /\ ~Coherent(Val(report).value)


\* ------------------------------------------------------------------------
\* C37: read-only events leave the dialogue state untouched
\* ------------------------------------------------------------------------
\* the events the sentence names: the greeting, help, summary and detail
\* commands, the buttons of the month picker, a button id that is not a
\* rate choice, and a message that is neither text, image nor interactive
IsReadOnly(m) ==
    IF m.type = "text"
    THEN Normalized[m.body] \in GreetingWords \cup HelpWords \cup TotalWords \cup DetailWords
    ELSE IF m.type = "interactive"
    THEN m.button_id \notin {"pos_rate", "atm_rate"}
    ELSE m.type # "image"
HandlesReadOnly == Len(log') = Len(log) + 1 /\ IsReadOnly(Handled)

\* C37: a greeting, help, summary-request or detail-request command, a
\* month_<YYYY-MM> or all_time button, an unknown button id or a message of
\* an unsupported type changes none of pending_receipts,
\* pending_manual_entries and manual_entry_states, for any sender
C37_ReadOnlyEventsKeepDialogue ==
    [][HandlesReadOnly => (dialogue' = dialogue /\ expenses' = expenses)]_vars

\* a manual entry interrupted while its amount was awaited was resumed:
\* the amount typed after the read-only event was taken
C37_Witness ==
    /\ Len(log) = 3
    /\ log[1].type = "text" /\ log[1].body = TxtManual
    /\ IsReadOnly(log[2])
    /\ log[3].type = "text" /\ log[3].body = TxtAmount
    /\ AwaitingMerchant(log[3].from)

====
